---- MODULE Spec2Model ----
(***************************************************************************)
(* EmailFileBackup-Cron: the database-backed lock (database.py), the mail  *)
(* run (mail_processor.py process_emails / _process_single_message) and    *)
(* the WebDAV upload (mail_processor.py upload_to_webdav).                  *)
(*                                                                         *)
(* Time is a single clock `now`, in minutes (the application clock         *)
(* datetime.now() and the store's CURRENT_TIMESTAMP are taken to agree).   *)
(* A worker p runs one call at a time; pc[p] is its position in the code.  *)
(***************************************************************************)
EXTENDS Integers, Sequences, FiniteSets, TLC

\* ---------------------------------------------------------------- bounds
NumProcs == 2
MaxRuns == 2
SeqRuns == 2
MaxMsgs == 2
MaxAtts == 2
MaxLog == 2

\* ------------------------------------------------------ program constants
\* acquire_lock(lock_name, timeout_minutes: int = 30)
DEFAULT_TIMEOUT_MINUTES == 30
\* config.py:123  int(os.getenv("MAX_ATTACHMENT_SIZE_MB", 50)) * 1024 * 1024
MAX_ATTACHMENT_SIZE == 52428800
\* config.py:127  int(os.getenv("MAX_EMAILS_PER_RUN", 10)), here MAX_EMAILS_PER_RUN=1
MAX_EMAILS_PER_RUN == 1

Procs == 1..NumProcs
NoProc == 0
\* SQL NULL of the locked_at column; timestamps are >= 0
NULL == 0 - 1
LOCK_NAME == "process_emails_lock"
LockNames == {LOCK_NAME}
\* timeout_minutes values passed by direct callers of acquire_lock
Timeouts == {0, DEFAULT_TIMEOUT_MINUTES}
\* the instants the clock is observed at: the start, the instant a lock taken at
\* the start reaches the default timeout, and one minute later
Instants == {0, DEFAULT_TIMEOUT_MINUTES, DEFAULT_TIMEOUT_MINUTES + 1}

\* a row of app_locks (exists = FALSE: the table has no row of that name)
NoRow == [exists |-> FALSE, is_locked |-> FALSE, locked_at |-> NULL]
\* INSERT IGNORE INTO app_locks (lock_name): is_locked DEFAULT FALSE, locked_at NULL
NewRow == [exists |-> TRUE, is_locked |-> FALSE, locked_at |-> NULL]
UnlockedRow == [exists |-> TRUE, is_locked |-> FALSE, locked_at |-> NULL]
LockedRow(t) == [exists |-> TRUE, is_locked |-> TRUE, locked_at |-> t]
\* database.py:542-543: a locked row without timestamp, left by an older version
UnstampedRow == [exists |-> TRUE, is_locked |-> TRUE, locked_at |-> NULL]

NoCall == [name |-> LOCK_NAME, timeout |-> DEFAULT_TIMEOUT_MINUTES, seen |-> NoRow,
           result |-> FALSE, err |-> FALSE, forced |-> FALSE]

\* ---- mailbox, targets, log
\* attachment sizes in bytes: at the limit, and one byte over it
Sizes == {MAX_ATTACHMENT_SIZE, MAX_ATTACHMENT_SIZE + 1}
SeqsUpTo(S, n) == UNION {[1..k -> S] : k \in 0..n}
\* a message is the sequence of the sizes of its attachments
Messages(maxAtts) == SeqsUpTo(Sizes, maxAtts)
\* the attachments of a mailbox: (uid, position)
Attachments(box) == UNION {{<<i, j>> : j \in 1..Len(box[i])} : i \in 1..Len(box)}
\* the mailboxes of at most maxMsgs messages with at most maxAtts attachments
\* in all: uid -> message
Mailboxes(maxMsgs, maxAtts) ==
    {box \in SeqsUpTo(Messages(maxAtts), maxMsgs) : Cardinality(Attachments(box)) <= maxAtts}
\* no name: get_config_value() returning None, server_name NULL
NoName == "NULL"
\* the static target lists load_config() can return (names of WEBDAV_SERVERS entries)
StaticLists == {<< >>, <<"Env">>}
\* persisted webdav_servers tables: rows [id, name, enabled, priority]
Server(i, n, e, pr) == [id |-> i, name |-> n, enabled |-> e, priority |-> pr]
ServerTables ==
    { {},
      {Server(1, "A", TRUE, 0)},
      {Server(1, "A", TRUE, 1), Server(2, "B", TRUE, 0)},
      {Server(1, "A", FALSE, 0), Server(2, "B", TRUE, 0)},
      {Server(1, "A", FALSE, 0)},
      {Server(1, "A", TRUE, 0), Server(2, "B", TRUE, 0)} }
\* the static target lists handed to direct calls of upload_to_webdav
UploadStaticLists == StaticLists \cup {<<"Env", "Env2">>}
DefaultNames == {NoName, "A", "B", "Env2"}
\* a remote file is named by the message and the position of the attachment
FileNames == {<<1, 1>>}

\* locals of _process_single_message for one attachment (mail_processor.py:350-361);
\* a string is the sequence of its characters; probed: the candidates sent to
\* webdav_file_exists so far, each with the answer it gave
NoAttachment == [filename_raw |-> << >>, original_filename |-> << >>,
                 safe_filename |-> << >>, counter |-> 0, probed |-> << >>,
                 final_filename |-> << >>]
\* locals and per-invocation history of a process_emails invocation
NoRun == [cfg |-> << >>, unread |-> << >>, idx |-> 0, processed_count |-> 0,
          uid |-> 0, att |-> 0, all_ok |-> TRUE, raised |-> FALSE,
          sessions |-> 0, handed |-> << >>, deleted |-> {}, released |-> 0,
          relOk |-> FALSE, propagated |-> FALSE,
          tried |-> {}, calls |-> {}, okAtt |-> {}, skipped |-> {}, failedAt |-> 0,
          puts |-> << >>]
\* the last upload_to_webdav call (history)
NoUpload == [called |-> FALSE, result |-> FALSE, target |-> NoName, put |-> FALSE,
             raised |-> FALSE, logOk |-> TRUE, appended |-> << >>,
             static |-> << >>, readsOk |-> <<TRUE, TRUE>>, servers_from_db |-> << >>,
             default_server_name |-> NoName, warnings |-> {}, probe_target |-> NoName]

VARIABLES
    now,        \* the clock, minutes
    app_locks,  \* table app_locks: lock_name -> row
    rowLock,    \* InnoDB exclusive row lock: lock_name -> the worker whose transaction holds it
    grants,     \* lock_name -> acquire_lock calls that found the row unlocked and returned
                \* True since the row was last set unlocked (history)
    stolen,     \* a timeout override took the lock while its holder was still running (history)
    pc,         \* worker -> position
    lk,         \* worker -> the acquire_lock call in progress / last returned
    run,        \* worker -> locals and history of its process_emails invocation
    runs,       \* invocations started so far
    msgs,       \* uid -> message (fixed)
    mailbox,    \* uids of the messages in the mailbox
    seen,       \* uids flagged as read
    webdav_servers,         \* table webdav_servers
    default_webdav_server,  \* app_config['default_webdav_server'] or NoName
    upload_logs,            \* table upload_logs, in insertion order
    last_upload,            \* worker -> its last upload_to_webdav call (history)
    attachment,             \* the attachment whose remote file name is being resolved
    api                     \* the HTTP layer: configured keys, requests and responses

\* Python values of the HTTP layer: None, or a str (a sequence of characters)
None == [type |-> "NoneType", value |-> << >>]
Str(s) == [type |-> "str", value |-> s]
\* `not v` for None or a str
Falsy(v) == v.type = "NoneType" \/ v.value = << >>
\* no request waiting at the internal worker
NoRequest == [auth_header |-> None, via |-> "none", id |-> 0]
\* no HTTP response
NoResponse == [status |-> 0, message |-> "none"]
\* the HTTP layer before any request, with no key configured
NoApi == [api_secret_key |-> None, internal_api_key |-> None, requests |-> 0,
          trigger_pc |-> "idle", trigger_header |-> None, trigger_id |-> 0,
          post_outcome |-> "none", trigger_response |-> NoResponse,
          worker_request |-> NoRequest, serving |-> NoRequest, reply |-> NoResponse,
          worker_response |-> NoResponse]

lockVars == <<now, app_locks, rowLock, grants, stolen>>
mailVars == <<msgs, mailbox, seen>>
davVars == <<webdav_servers, default_webdav_server, upload_logs, last_upload>>
vars == <<now, app_locks, rowLock, grants, stolen, pc, lk, run, runs, msgs, mailbox, seen,
          webdav_servers, default_webdav_server, upload_logs, last_upload, attachment,
          api>>

\* process_emails between its successful acquire_lock and the end of its release_lock
RunSpan == {"load_cfg", "connect", "list", "loop", "msg", "att", "upload", "verdict",
            "release"}
InRun(p) == pc[p] \in RunSpan
\* the span between a successful acquire_lock (402) and the end of release_lock (463)
Holding(p) == InRun(p) \/ (pc[p] = "acq_ret" /\ lk[p].result)

\* ------------------------------------------------------------ acquire_lock

\* timedelta.total_seconds() of a difference of d minutes
TotalSeconds(d) == d * 60

\* database.py:529  time_diff.total_seconds() > timeout_minutes * 60
ExpiredNonStrict(locked_at, t, timeout_minutes) ==
    TotalSeconds(t - locked_at) >= timeout_minutes * 60
Expired(locked_at, t, timeout_minutes) ==
    TotalSeconds(t - locked_at) > timeout_minutes * 60

\* database.py:521-550: the local is_locked after the timeout / no-timestamp checks
IsLockedAfterChecksKeepingUnstamped(row, t, timeout_minutes) ==
    IF row.is_locked
    THEN IF row.locked_at # NULL
         THEN ~Expired(row.locked_at, t, timeout_minutes)
         ELSE TRUE
    ELSE FALSE
IsLockedAfterChecks(row, t, timeout_minutes) ==
    IF row.is_locked
    THEN IF row.locked_at # NULL
         THEN ~Expired(row.locked_at, t, timeout_minutes)
         ELSE FALSE
    ELSE FALSE

\* SELECT ... FOR UPDATE: the transaction of p takes the exclusive row lock
RowLockPlainSelect(p) == NoProc
RowLockForUpdate(p) == p

\* database.py:502-503 (no connection) and 571-575 (mysql.connector.Error:
\* rollback, return False)
FailReturningTrue(p) == lk' = [lk EXCEPT ![p].result = TRUE, ![p].err = TRUE]
Fail(p) == lk' = [lk EXCEPT ![p].result = FALSE, ![p].err = TRUE]

\* database.py:501-503 get_db_connection
acquire_lock_connect(p) ==
    /\ pc[p] = "acq_conn"
    /\ \E ok \in BOOLEAN :
        IF ok
        THEN /\ pc' = [pc EXCEPT ![p] = "acq_insert"]
             /\ UNCHANGED lk
        ELSE /\ pc' = [pc EXCEPT ![p] = "acq_ret"]
             /\ Fail(p)
    /\ UNCHANGED <<lockVars, run, runs, mailVars, api, attachment, davVars>>

\* database.py:508-512 INSERT IGNORE (blocks on a row another transaction holds
\* exclusively), made durable by the implicit commit of START TRANSACTION
acquire_lock_ensure_row(p) ==
    /\ pc[p] = "acq_insert"
    /\ \/ /\ rowLock[lk[p].name] = NoProc
          /\ app_locks' = [app_locks EXCEPT ![lk[p].name] =
                               IF @.exists THEN @ ELSE NewRow]
          /\ pc' = [pc EXCEPT ![p] = "acq_select"]
          /\ UNCHANGED lk
       \/ \* mysql.connector.Error: rollback, return False
          /\ pc' = [pc EXCEPT ![p] = "acq_ret"]
          /\ Fail(p)
          /\ UNCHANGED app_locks
    /\ UNCHANGED <<now, rowLock, grants, stolen, run, runs, mailVars, api, attachment, davVars>>

\* database.py:513-519 SELECT is_locked, locked_at ... FOR UPDATE; fetchone
acquire_lock_select(p) ==
    /\ pc[p] = "acq_select"
    /\ \/ /\ rowLock[lk[p].name] = NoProc
          /\ rowLock' = [rowLock EXCEPT ![lk[p].name] = RowLockForUpdate(p)]
          /\ lk' = [lk EXCEPT ![p].seen = app_locks[lk[p].name]]
          /\ pc' = [pc EXCEPT ![p] = "acq_decide"]
       \/ \* mysql.connector.Error: rollback, return False
          /\ pc' = [pc EXCEPT ![p] = "acq_ret"]
          /\ Fail(p)
          /\ UNCHANGED rowLock
    /\ UNCHANGED <<now, app_locks, grants, stolen, run, runs, mailVars, api, attachment, davVars>>

\* commit / rollback / close end the transaction of p and release its row lock
ReleaseRowLock(p, name) ==
    rowLock' = [rowLock EXCEPT ![name] = IF @ = p THEN NoProc ELSE @]

\* database.py:521-569 decide, UPDATE, commit / rollback
acquire_lock_decide(p) ==
    /\ pc[p] = "acq_decide"
    /\ pc' = [pc EXCEPT ![p] = "acq_ret"]
    /\ ReleaseRowLock(p, lk[p].name)
    /\ \/ LET row == lk[p].seen
              name == lk[p].name
              take == row.exists /\ ~IsLockedAfterChecks(row, now, lk[p].timeout)
          IN  /\ lk' = [lk EXCEPT ![p].result = take,
                                  ![p].forced = take /\ row.is_locked]
              /\ app_locks' = IF take
                              THEN [app_locks EXCEPT ![name] = LockedRow(now)]
                              ELSE app_locks
              /\ grants' = IF take /\ ~row.is_locked
                           THEN [grants EXCEPT ![name] = @ + 1]
                           ELSE grants
              /\ stolen' = (stolen \/ (take /\ row.is_locked /\ name = LOCK_NAME
                                        /\ \E q \in Procs \ {p} : Holding(q)))
       \/ \* mysql.connector.Error during UPDATE / commit: rollback, return False
          /\ Fail(p)
          /\ UNCHANGED <<app_locks, grants, stolen>>
    /\ UNCHANGED <<now, run, runs, mailVars, api, attachment, davVars>>

acquire_lock(p) ==
    \/ acquire_lock_connect(p)
    \/ acquire_lock_ensure_row(p)
    \/ acquire_lock_select(p)
    \/ acquire_lock_decide(p)

\* ------------------------------------------------------------ release_lock

\* database.py:592-593: UPDATE app_locks SET is_locked = FALSE, locked_at = NULL
\* WHERE lock_name = %s (a name without a row matches nothing)
ReleaseEffectCreating(table, name) == [table EXCEPT ![name] = UnlockedRow]
ReleaseEffectKeepingTimestamp(table, name) ==
    [table EXCEPT ![name] = IF @.exists THEN [@ EXCEPT !.is_locked = FALSE] ELSE @]
ReleaseEffectOwnerChecked(table, name) ==
    IF stolen THEN table
    ELSE [table EXCEPT ![name] = IF @.exists THEN UnlockedRow ELSE @]
ReleaseEffect(table, name) ==
    [table EXCEPT ![name] = IF @.exists THEN UnlockedRow ELSE @]

\* database.py:582-600.  dbOk = FALSE: no connection (587-588) or a
\* mysql.connector.Error (595-596); the table is left as it is, nothing is raised.
release_lock(name, dbOk) ==
    IF dbOk
    THEN /\ rowLock[name] = NoProc
         /\ app_locks' = ReleaseEffect(app_locks, name)
         /\ grants' = [grants EXCEPT ![name] = IF app_locks[name].exists THEN 0 ELSE @]
    ELSE UNCHANGED <<app_locks, grants>>

\* database.py:467-472: UPDATE app_locks SET is_locked = FALSE, locked_at = NULL
\* WHERE is_locked = TRUE
SweepEffectStaleOnly(table) ==
    [n \in LockNames |->
        IF table[n].exists /\ table[n].is_locked
              /\ Expired(table[n].locked_at, now, DEFAULT_TIMEOUT_MINUTES)
        THEN UnlockedRow ELSE table[n]]
SweepEffect(table) ==
    [n \in LockNames |->
        IF table[n].exists /\ table[n].is_locked THEN UnlockedRow ELSE table[n]]

\* database.py:452-487.  dbOk = FALSE: no connection (460-462) or a
\* mysql.connector.Error (482-483)
cleanup_stale_locks(dbOk) ==
    IF dbOk
    THEN /\ \A n \in LockNames : rowLock[n] = NoProc
         /\ app_locks' = SweepEffect(app_locks)
         /\ grants' = [n \in LockNames |->
                           IF app_locks[n].exists /\ app_locks[n].is_locked
                           THEN 0 ELSE grants[n]]
    ELSE UNCHANGED <<app_locks, grants>>

\* ------------------------------------------------------------------- clock
\* The clock is read by acquire_lock only (datetime.now() and CURRENT_TIMESTAMP in
\* database.py:528, 557), so time that passed is first observed there: the
\* clock advances when a call is about to read it.
Tick ==
    /\ \E p \in Procs : pc[p] = "acq_decide"
    /\ \E t \in Instants : t > now /\ now' = t
    /\ UNCHANGED <<app_locks, rowLock, grants, stolen, pc, lk, run, runs, mailVars, api, attachment, davVars>>

\* ------------------------------------------- direct callers of the lock API
CallAcquire(p) ==
    /\ pc[p] = "idle"
    /\ \E n \in LockNames, t \in Timeouts :
          lk' = [lk EXCEPT ![p] = [NoCall EXCEPT !.name = n, !.timeout = t]]
    /\ pc' = [pc EXCEPT ![p] = "acq_conn"]
    /\ UNCHANGED <<lockVars, run, runs, mailVars, api, attachment, davVars>>

ReturnAcquire(p) ==
    /\ pc[p] = "acq_ret"
    /\ pc' = [pc EXCEPT ![p] = "idle"]
    /\ lk' = [lk EXCEPT ![p] = NoCall]
    /\ UNCHANGED <<lockVars, run, runs, mailVars, api, attachment, davVars>>

\* a call of release_lock(n); the row it found is kept in lk[p].seen, and
\* lk[p].err tells that the store was not reached
CallRelease(p) ==
    /\ pc[p] = "idle"
    /\ \E n \in LockNames, dbOk \in BOOLEAN :
          /\ release_lock(n, dbOk)
          /\ lk' = [lk EXCEPT ![p] = [NoCall EXCEPT !.name = n, !.seen = app_locks[n],
                                                    !.err = ~dbOk]]
    /\ pc' = [pc EXCEPT ![p] = "rel_ret"]
    /\ UNCHANGED <<now, rowLock, stolen, run, runs, mailVars, api, attachment, davVars>>

\* a call of cleanup_stale_locks(); lk[p].seen keeps the row LOCK_NAME it found
CallCleanup(p) ==
    /\ pc[p] = "idle"
    /\ \E dbOk \in BOOLEAN :
          /\ cleanup_stale_locks(dbOk)
          /\ lk' = [lk EXCEPT ![p] = [NoCall EXCEPT !.seen = app_locks[LOCK_NAME],
                                                    !.err = ~dbOk]]
    /\ pc' = [pc EXCEPT ![p] = "sweep_ret"]
    /\ UNCHANGED <<now, rowLock, stolen, run, runs, mailVars, api, attachment, davVars>>

\* release_lock and cleanup_stale_locks return None, whatever happened
ReturnRelease(p) ==
    /\ pc[p] \in {"rel_ret", "sweep_ret"}
    /\ pc' = [pc EXCEPT ![p] = "idle"]
    /\ lk' = [lk EXCEPT ![p] = NoCall]
    /\ UNCHANGED <<lockVars, run, runs, mailVars, api, attachment, davVars>>

\* state shared by every specification: nothing running, clock at 0
InitCommon ==
    /\ now = 0
    /\ rowLock = [n \in LockNames |-> NoProc]
    /\ grants = [n \in LockNames |-> 0]
    /\ stolen = FALSE
    /\ pc = [p \in Procs |-> "idle"]
    /\ lk = [p \in Procs |-> NoCall]
    /\ run = [p \in Procs |-> NoRun]
    /\ runs = 0
    /\ seen = {}
    /\ upload_logs = << >>
    /\ last_upload = [p \in Procs |-> NoUpload]
    /\ attachment = NoAttachment
    /\ api = NoApi

InitLock ==
    /\ InitCommon
    /\ app_locks \in [LockNames -> {NoRow, UnlockedRow}]
    /\ msgs = << >>
    /\ mailbox = {}
    /\ webdav_servers = {}
    /\ default_webdav_server = NoName

NextLock ==
    \/ Tick
    \/ \E p \in Procs :
        \/ CallAcquire(p)
        \/ acquire_lock(p)
        \/ ReturnAcquire(p)
        \/ CallRelease(p)
        \/ CallCleanup(p)
        \/ ReturnRelease(p)

SpecLock == InitLock /\ [][NextLock]_vars

\* -------------------------------------------------------- upload_to_webdav

\* ORDER BY priority ASC, id ASC
BeforeIdOnly(a, b) == a.id < b.id
Before(a, b) == a.priority < b.priority \/ (a.priority = b.priority /\ a.id < b.id)

RECURSIVE Ordered(_)
Ordered(S) ==
    IF S = {} THEN << >>
    ELSE LET f == CHOOSE x \in S : \A y \in S \ {x} : Before(x, y)
         IN  <<f.name>> \o Ordered(S \ {f})

\* database.py:786-803: the enabled rows in order ([] when the store fails);
\* a target is represented by its name
get_enabled_servers(dbOk) ==
    IF dbOk THEN Ordered({s \in webdav_servers : s.enabled}) ELSE << >>

\* database.py:713-732 get_config_value('default_webdav_server') (None when the store fails)
get_config_value(dbOk) == IF dbOk THEN default_webdav_server ELSE NoName

\* mail_processor.py:178-184: the persisted enabled targets, or the static list
\* when there is none
ServersNoFallback(from_db, static_servers) == from_db
ServersOrFallback(from_db, static_servers) ==
    IF from_db # << >> THEN from_db ELSE static_servers

\* mail_processor.py:190-195: the target named by the default setting is in the list
DefaultFound(servers, default_server_name) ==
    default_server_name # NoName /\ \E i \in 1..Len(servers) : servers[i] = default_server_name

\* mail_processor.py:189-200: the default target when it is in the list, else the first
SelectTargetFirst(servers, default_server_name) == servers[1]
SelectTarget(servers, default_server_name) ==
    IF default_server_name # NoName /\ \E i \in 1..Len(servers) : servers[i] = default_server_name
    THEN default_server_name
    ELSE servers[1]

\* what requests.put(...); raise_for_status() can do
PutOutcomes == {"ok", "request_error", "other_error"}

\* mail_processor.py:176-227 without the log write: the target, whether a PUT is
\* issued, the status handed to log_upload ("none": log_upload is not called)
\* and the result (raised: an exception other than RequestException leaves the call)
UploadOutcome(static_servers, dbServersOk, dbDefaultOk, put) ==
    LET from_db == get_enabled_servers(dbServersOk)
        servers == ServersOrFallback(from_db, static_servers)
        default_server_name == get_config_value(dbDefaultOk)
        reads == [static |-> static_servers, readsOk |-> <<dbServersOk, dbDefaultOk>>,
                  servers_from_db |-> from_db]
    IN  IF servers = << >>
        THEN \* 179-182: logger.error, return False (get_config_value is not reached)
             reads @@ [result |-> FALSE, target |-> NoName, put |-> FALSE, status |-> "none",
                       raised |-> FALSE, default_server_name |-> NoName, warnings |-> {}]
        ELSE reads @@
             [result |-> (put = "ok"),
              target |-> SelectTarget(servers, default_server_name),
              put |-> TRUE,
              status |-> IF put = "ok" THEN "Success"
                         ELSE IF put = "request_error" THEN "Failed" ELSE "none",
              raised |-> (put = "other_error"),
              default_server_name |-> default_server_name,
              \* 184 and 200: logger.warning
              warnings |-> (IF from_db = << >> THEN {"no_db_servers"} ELSE {})
                           \cup (IF DefaultFound(servers, default_server_name)
                                 THEN {} ELSE {"no_default"})]

\* config.py:259 upload.retry_count: UPLOAD_RETRY_COUNT, 3 by default
RetryCounts == {0, 3}

\* mail_processor.py:219-226: the PUT requests of one call, by target: one
\* requests.put, whose failure is logged and returned (retry_count is not read)
PutRequestsRetrying(target, put, retry_count) ==
    IF put = "ok" THEN <<target>> ELSE [i \in 1..(1 + retry_count) |-> target]
PutRequests(target, put, retry_count) == <<target>>

\* database.py:603-625 log_upload: one INSERT INTO upload_logs (nothing when the store fails)
log_upload_replacing_failed(filename, status, server_name, dbOk) ==
    IF dbOk
    THEN LET kept == IF status = "Failed"
                     THEN SelectSeq(upload_logs, LAMBDA e : e.filename[1] # filename[1])
                     ELSE upload_logs
         IN  Append(kept, [filename |-> filename, status |-> status,
                           server_name |-> server_name])
    ELSE upload_logs
log_upload(filename, status, server_name, dbOk) ==
    IF dbOk
    THEN Append(upload_logs, [filename |-> filename, status |-> status,
                              server_name |-> server_name])
    ELSE upload_logs

\* mail_processor.py:222, 226: the effect of the call on upload_logs
upload_to_webdav(filename, r, dbLogOk) ==
    upload_logs' = IF r.status # "none"
                   THEN log_upload(filename, r.status, r.target, dbLogOk)
                   ELSE upload_logs

\* ---------------------------------------------------------- process_emails

\* outcomes of the two store reads of upload_to_webdav inside a run (their
\* failure, which changes the target, is exercised by SpecUpload)
RunStoreReads == {TRUE}

\* config.py:284-381 validate_config: a target list, and every required key
validate_config_keys_only(static_servers, keysOk) == keysOk
validate_config(static_servers, keysOk) == static_servers # << >> /\ keysOk

\* mail_processor.py:402-407: return when the lock was not acquired, else enter the try
AfterAcquireReleasing(result) == IF result THEN "load_cfg" ELSE "release"
AfterAcquire(result) == IF result THEN "load_cfg" ELSE "done"

\* mail_processor.py:407-463 try / finally: every way out of the try block
\* ("return", "end", "break", "exception") goes through release_lock
FinallyNotOnException(how) == IF how = "exception" THEN "done" ELSE "release"
Finally(how) == "release"

\* mail_processor.py:375 attachment_size > MAX_ATTACHMENT_SIZE
Oversized(size) == size > MAX_ATTACHMENT_SIZE

\* mail_processor.py:375-380: an oversized attachment is skipped by `continue`,
\* all_attachments_succeeded keeps its value
AllOkAfterSkipFailing(all_ok) == FALSE
AllOkAfterSkip(all_ok) == all_ok

\* mail_processor.py:382-385: a failed upload ends the loop over the attachments (break)
AfterFailedUploadContinue(k, n) == IF k < n THEN "att" ELSE "verdict"
AfterFailedUpload(k, n) == "verdict"

\* mail_processor.py:432 processed_count >= MAX_EMAILS_PER_RUN
CapReached(processed_count) == processed_count >= MAX_EMAILS_PER_RUN

\* mail_processor.py:446-452: the message is deleted on a True verdict only
DeleteAlways(verdict) == TRUE
DeleteOn(verdict) == verdict

\* mail_processor.py:450-452: the failure branch only logs (mark_seen is commented out)
SeenAfterFailureMarked(s, uid) == s \cup {uid}
SeenAfterFailure(s, uid) == s

\* mail_processor.py:430, 446-452: after either branch the for loop takes the
\* next (uid, message) of the listing
NextAfterVerdictAborting(verdict) == IF verdict THEN "loop" ELSE "release"
NextAfterVerdict(verdict) == "loop"

RECURSIVE Ascending(_)
Ascending(S) ==
    IF S = {} THEN << >>
    ELSE LET m == CHOOSE x \in S : \A y \in S : x <= y
         IN  <<m>> \o Ascending(S \ {m})

SetRun(p, r) == run' = [run EXCEPT ![p] = r]
Goto(p, l) == pc' = [pc EXCEPT ![p] = l]

\* app.py:107-123 internal_worker -> process_emails()
Trigger(p, maxRuns) ==
    /\ pc[p] = "idle"
    /\ runs < maxRuns
    /\ Len(upload_logs) < MaxLog
    /\ runs' = runs + 1
    /\ Goto(p, "acq_conn")
    /\ UNCHANGED <<lockVars, lk, run, mailVars, api, attachment, davVars>>

\* mail_processor.py:402-405
PE_after_acquire(p) ==
    /\ pc[p] = "acq_ret"
    /\ Goto(p, AfterAcquire(lk[p].result))
    /\ lk' = [lk EXCEPT ![p] = [NoCall EXCEPT !.result = lk[p].result]]
    /\ UNCHANGED <<lockVars, run, runs, mailVars, api, attachment, davVars>>

\* mail_processor.py:408-413 load_config, validate_config
PE_load_config(p) ==
    /\ pc[p] = "load_cfg"
    /\ \E servers \in StaticLists, keysOk \in BOOLEAN :
          /\ SetRun(p, [run[p] EXCEPT !.cfg = servers])
          /\ Goto(p, IF validate_config(servers, keysOk) THEN "connect" ELSE Finally("return"))
    /\ UNCHANGED <<lockVars, lk, runs, mailVars, api, attachment, davVars>>

\* mail_processor.py:415-419 with Imbox(...): connect and log in
PE_connect(p) ==
    /\ pc[p] = "connect"
    /\ \E ok \in BOOLEAN :
          IF ok
          THEN /\ SetRun(p, [run[p] EXCEPT !.sessions = @ + 1])
               /\ Goto(p, "list")
          ELSE /\ SetRun(p, [run[p] EXCEPT !.raised = TRUE])
               /\ Goto(p, Finally("exception"))
    /\ UNCHANGED <<lockVars, lk, runs, mailVars, api, attachment, davVars>>

\* mail_processor.py:421-429 imbox.messages(unread=True, subject=...)
PE_list(p) ==
    /\ pc[p] = "list"
    /\ \E ok \in BOOLEAN :
          IF ok
          THEN LET unread_messages == Ascending(mailbox \ seen)
               IN  IF unread_messages = << >>
                   THEN /\ UNCHANGED run
                        /\ Goto(p, Finally("return"))
                   ELSE /\ SetRun(p, [run[p] EXCEPT !.unread = unread_messages, !.idx = 1,
                                                    !.processed_count = 0])
                        /\ Goto(p, "loop")
          ELSE /\ SetRun(p, [run[p] EXCEPT !.raised = TRUE])
               /\ Goto(p, Finally("exception"))
    /\ UNCHANGED <<lockVars, lk, runs, mailVars, api, attachment, davVars>>

\* mail_processor.py:430-440: the next (uid, message) of the listing is fetched,
\* then the cap is tested; fetching a message that is no longer in the mailbox
\* (deleted by another invocation) or a failing fetch raises
PE_loop(p) ==
    /\ pc[p] = "loop"
    /\ LET r == run[p]
       IN  IF r.idx > Len(r.unread)
           THEN /\ UNCHANGED run
                /\ Goto(p, Finally("end"))
           ELSE \E ok \in BOOLEAN :
                  IF ~ok \/ r.unread[r.idx] \notin mailbox
                  THEN /\ SetRun(p, [r EXCEPT !.raised = TRUE])
                       /\ Goto(p, Finally("exception"))
                  ELSE IF CapReached(r.processed_count)
                       THEN /\ UNCHANGED run
                            /\ Goto(p, Finally("break"))
                       ELSE /\ SetRun(p, [r EXCEPT !.uid = r.unread[r.idx],
                                                   !.handed = Append(@, r.unread[r.idx])])
                            /\ Goto(p, "msg")
    /\ UNCHANGED <<lockVars, lk, runs, mailVars, api, attachment, davVars>>

\* mail_processor.py:344-346: a message without attachment is reported as handled
NoAttachmentsVerdictFalse(attachments) == FALSE
NoAttachmentsVerdict(attachments) == TRUE

\* mail_processor.py:386-389: an exception while an attachment is handled is
\* caught, the verdict is False and the loop over the attachments ends (break)
AfterExceptionPropagating(k, n) == "release"
AfterException(k, n) == "verdict"

\* mail_processor.py:337-348 _process_single_message: no attachment -> True
PSM_begin(p) ==
    /\ pc[p] = "msg"
    /\ LET r == [run[p] EXCEPT !.all_ok = TRUE, !.tried = {}, !.calls = {}, !.okAtt = {},
                               !.skipped = {}, !.failedAt = 0, !.puts = << >>]
       IN  IF msgs[r.uid] = << >>
           THEN /\ SetRun(p, [r EXCEPT !.att = 0,
                                       !.all_ok = NoAttachmentsVerdict(msgs[r.uid])])
                /\ Goto(p, "verdict")
           ELSE /\ SetRun(p, [r EXCEPT !.att = 1])
                /\ Goto(p, "att")
    /\ UNCHANGED <<lockVars, lk, runs, mailVars, api, attachment, davVars>>

\* mail_processor.py:349-380, 386-389: file name (decode, sanitize, existence
\* probes), size, size limit; ok = FALSE: an exception in one of these
PSM_attachment(p) ==
    /\ pc[p] = "att"
    /\ LET r == run[p]
           k == r.att
           n == Len(msgs[r.uid])
       IN  \E ok \in BOOLEAN :
              IF ~ok
              THEN /\ SetRun(p, [r EXCEPT !.tried = @ \cup {k}, !.all_ok = FALSE])
                   /\ Goto(p, AfterException(k, n))
              ELSE IF Oversized(msgs[r.uid][k])
                   THEN /\ SetRun(p, [r EXCEPT !.tried = @ \cup {k}, !.skipped = @ \cup {k},
                                               !.all_ok = AllOkAfterSkip(@),
                                               !.att = IF k < n THEN k + 1 ELSE k])
                        /\ Goto(p, IF k < n THEN "att" ELSE "verdict")
                   ELSE /\ SetRun(p, [r EXCEPT !.tried = @ \cup {k}])
                        /\ Goto(p, "upload")
    /\ UNCHANGED <<lockVars, lk, runs, mailVars, api, attachment, davVars>>

\* mail_processor.py:382-389 upload_to_webdav(config, content, final_filename, size)
PSM_upload(p) ==
    /\ pc[p] = "upload"
    /\ LET r == run[p]
           k == r.att
           n == Len(msgs[r.uid])
       IN  \E put \in PutOutcomes, dbS \in RunStoreReads, dbD \in RunStoreReads, dbL \in BOOLEAN,
              retry_count \in RetryCounts :
              LET u == UploadOutcome(r.cfg, dbS, dbD, put)
                  requests == IF u.put THEN PutRequests(u.target, put, retry_count) ELSE << >>
                  sent == [i \in 1..Len(requests) |-> [att |-> k, target |-> requests[i]]]
              IN  /\ upload_to_webdav(<<r.uid, k>>, u, dbL)
                  /\ IF u.result
                     THEN /\ SetRun(p, [r EXCEPT !.calls = @ \cup {k}, !.okAtt = @ \cup {k},
                                                 !.puts = @ \o sent,
                                                 !.att = IF k < n THEN k + 1 ELSE k])
                          /\ Goto(p, IF k < n THEN "att" ELSE "verdict")
                     ELSE LET next == IF u.raised THEN AfterException(k, n)
                                      ELSE AfterFailedUpload(k, n)
                          IN /\ SetRun(p, [r EXCEPT !.calls = @ \cup {k}, !.all_ok = FALSE,
                                                    !.puts = @ \o sent,
                                                    !.failedAt = IF u.raised THEN @ ELSE k,
                                                    !.att = IF next = "att" THEN k + 1 ELSE k])
                             /\ Goto(p, next)
    /\ UNCHANGED <<lockVars, lk, runs, mailVars, api, attachment, webdav_servers, default_webdav_server,
                   last_upload>>

\* mail_processor.py:446-452: delete on True (imbox.delete may raise), else log only
PE_verdict(p) ==
    /\ pc[p] = "verdict"
    /\ LET r == run[p]
           left == [r EXCEPT !.uid = 0, !.att = 0, !.all_ok = TRUE, !.tried = {},
                             !.calls = {}, !.okAtt = {}, !.skipped = {}, !.failedAt = 0,
                             !.puts = << >>]
       IN  IF DeleteOn(r.all_ok)
           THEN \E ok \in BOOLEAN :
                  IF ok
                  THEN /\ mailbox' = mailbox \ {r.uid}
                       /\ SetRun(p, [left EXCEPT !.deleted = @ \cup {r.uid},
                                                 !.processed_count = @ + 1, !.idx = @ + 1])
                       /\ Goto(p, NextAfterVerdict(TRUE))
                       /\ UNCHANGED seen
                  ELSE /\ SetRun(p, [left EXCEPT !.raised = TRUE])
                       /\ Goto(p, Finally("exception"))
                       /\ UNCHANGED <<mailbox, seen>>
           ELSE /\ seen' = SeenAfterFailure(seen, r.uid)
                /\ SetRun(p, [left EXCEPT !.idx = @ + 1])
                /\ Goto(p, NextAfterVerdict(FALSE))
                /\ UNCHANGED mailbox
    /\ UNCHANGED <<lockVars, lk, runs, msgs, api, attachment, davVars>>

\* mail_processor.py:455-458: an exception raised in the try block is matched
\* against (errno.ConnectionError, OSError); the errno module has no attribute
\* ConnectionError, so evaluating the clause raises AttributeError, no handler
\* logs anything, and the exception leaves process_emails after the finally block
Propagates(raised) == raised

\* mail_processor.py:455-463 the except clauses, then finally: release_lock(LOCK_NAME)
PE_release(p) ==
    /\ pc[p] = "release"
    /\ \E dbOk \in BOOLEAN :
          /\ release_lock(LOCK_NAME, dbOk)
          /\ SetRun(p, [run[p] EXCEPT !.released = @ + 1, !.relOk = dbOk,
                                      !.propagated = Propagates(run[p].raised)])
    /\ Goto(p, "done")
    /\ UNCHANGED <<now, rowLock, stolen, lk, runs, mailVars, api, attachment, davVars>>

\* process_emails has ended; the worker is free for the next trigger
PE_return(p) ==
    /\ pc[p] = "done"
    /\ Goto(p, "idle")
    /\ lk' = [lk EXCEPT ![p] = NoCall]
    /\ SetRun(p, NoRun)
    /\ UNCHANGED <<lockVars, runs, mailVars, api, attachment, davVars>>

\* the steps of process_emails before its return
PE_steps(p) ==
    \/ acquire_lock(p)
    \/ PE_after_acquire(p)
    \/ PE_load_config(p)
    \/ PE_connect(p)
    \/ PE_list(p)
    \/ PE_loop(p)
    \/ PSM_begin(p)
    \/ PSM_attachment(p)
    \/ PSM_upload(p)
    \/ PE_verdict(p)
    \/ PE_release(p)

process_emails(p) ==
    \/ PE_steps(p)
    \/ PE_return(p)

\* the persisted targets and default the runs find
RunSetups == { <<{Server(1, "A", TRUE, 1), Server(2, "B", TRUE, 0)}, "A">> }

InitRuns(boxes) ==
    /\ InitCommon
    /\ app_locks = [n \in LockNames |-> NoRow]
    /\ msgs \in boxes
    /\ mailbox = 1..Len(msgs)
    /\ \E s \in RunSetups : webdav_servers = s[1] /\ default_webdav_server = s[2]

\* concurrently triggered invocations; their mailbox holds no message, or one
\* message with one attachment or none
ConcBoxes == {<< >>, << << >> >>} \cup {<< <<size>> >> : size \in Sizes}
Init == InitRuns(ConcBoxes)

Next ==
    \/ Tick
    \/ \E p \in Procs : Trigger(p, MaxRuns) \/ process_emails(p)

Spec == Init /\ [][Next]_vars

\* successive invocations on one worker over every mailbox within the bounds
Worker == CHOOSE p \in Procs : \A q \in Procs : p <= q

InitSeq == InitRuns(Mailboxes(MaxMsgs, MaxAtts))

NextSeq ==
    \/ Tick
    \/ Trigger(Worker, SeqRuns)
    \/ process_emails(Worker)

SpecSeq == InitSeq /\ [][NextSeq]_vars

\* ------------------------------------- direct callers of upload_to_webdav

\* mail_processor.py:255-256: the target webdav_file_exists sends its HEAD to
ProbeTarget(config) == config[1]

\* mail_processor.py:361 find_unique_filename(config, safe_filename) with a
\* validated config (a static list with no entry is refused at 409-411)
PSM_find_unique(p) ==
    /\ pc[p] = "idle"
    /\ \E config \in UploadStaticLists \ {<< >>} :
          last_upload' = [last_upload EXCEPT ![p] =
                             [NoUpload EXCEPT !.static = config,
                                              !.probe_target = ProbeTarget(config)]]
    /\ pc' = [pc EXCEPT ![p] = "probed"]
    /\ UNCHANGED <<lockVars, lk, run, runs, mailVars, api, attachment, webdav_servers,
                   default_webdav_server, upload_logs>>

\* the config of the call: the one find_unique_filename was given at 361, or
\* any for a call of upload_to_webdav alone
ConfigOf(p) == IF pc[p] = "probed" THEN {last_upload[p].static} ELSE UploadStaticLists

\* mail_processor.py:121 upload_to_webdav(config, data, remote_filename, file_size)
CallUpload(p) ==
    /\ pc[p] \in {"idle", "probed"}
    /\ Len(upload_logs) < MaxLog
    /\ \E static \in ConfigOf(p), f \in FileNames, put \in PutOutcomes,
          dbS \in BOOLEAN, dbD \in BOOLEAN, dbL \in BOOLEAN :
          LET u == UploadOutcome(static, dbS, dbD, put)
          IN  /\ upload_to_webdav(f, u, dbL)
              /\ last_upload' = [last_upload EXCEPT ![p] =
                     [called |-> TRUE, result |-> u.result, target |-> u.target,
                      put |-> u.put, raised |-> u.raised, logOk |-> dbL,
                      appended |-> SubSeq(upload_logs', Len(upload_logs) + 1,
                                          Len(upload_logs')),
                      static |-> u.static, readsOk |-> u.readsOk,
                      servers_from_db |-> u.servers_from_db,
                      default_server_name |-> u.default_server_name,
                      warnings |-> u.warnings,
                      probe_target |-> last_upload[p].probe_target]]
    /\ pc' = [pc EXCEPT ![p] = "up_ret"]
    /\ UNCHANGED <<lockVars, lk, run, runs, mailVars, api, attachment, webdav_servers,
                   default_webdav_server>>

\* upload_to_webdav returns (or raises) to its caller
ReturnUpload(p) ==
    /\ pc[p] = "up_ret"
    /\ pc' = [pc EXCEPT ![p] = "idle"]
    /\ last_upload' = [last_upload EXCEPT ![p] = NoUpload]
    /\ UNCHANGED <<lockVars, lk, run, runs, mailVars, api, attachment, webdav_servers,
                   default_webdav_server, upload_logs>>

\* database.py:735-759 set_config_value('default_webdav_server', name)
CallSetDefault(p) ==
    /\ pc[p] = "idle"
    /\ \E name \in DefaultNames \ {NoName}, dbOk \in BOOLEAN :
          default_webdav_server' = IF dbOk THEN name ELSE default_webdav_server
    /\ UNCHANGED <<lockVars, pc, lk, run, runs, mailVars, api, attachment, webdav_servers, upload_logs,
                   last_upload>>

InitUpload ==
    /\ InitCommon
    /\ app_locks = [n \in LockNames |-> NoRow]
    /\ msgs = << >>
    /\ mailbox = {}
    /\ webdav_servers \in ServerTables
    /\ default_webdav_server \in DefaultNames

NextUpload ==
    \/ PSM_find_unique(Worker)
    \/ CallUpload(Worker)
    \/ ReturnUpload(Worker)
    \/ CallSetDefault(Worker)

SpecUpload == InitUpload /\ [][NextUpload]_vars

\* ------------------------------------------------ attachment file names

\* the longest header drawn from HeaderChars, and the most candidates
\* 'base (k).ext' the remote directory holds for one name
MaxHeaderLen == 4
MaxCounter == 2

\* the characters of the headers: the separator's quote, a percent sign, two
\* hexadecimal digits (%20, %22, %00, %02 are ASCII), a dot, a slash, a letter
HeaderChars == {"'", "%", "2", "0", ".", "/", "x"}
StringsUpTo(chars, n) == UNION {[1..k -> chars] : k \in 0..n}
HeaderExample == <<"u", "t", "f", "-", "8", "'", "'", "r", "e", "p", "o", "r", "t", "%", "2", "0", "f", "i", "n", "a", "l", ".", "p", "d", "f">>
PathExample == <<".", ".", "/", ".", ".", "/", "e", "t", "c", "/", "p", "a", "s", "s", "w", "d">>
ForbiddenExample == <<"a", ":", "b", "/", "c", "*", "d">>
NameExample == <<"a", ".", "t", "x", "t">>
EncodedPathExample == <<"%", "2", "e", "%", "2", "E", "%", "2", "f", "x">>
\* attachment.get('filename') (mail_processor.py:350)
Headers ==
    StringsUpTo(HeaderChars, MaxHeaderLen)
        \cup {HeaderExample, PathExample, ForbiddenExample, NameExample, EncodedPathExample}

\* the characters of code 0..127 (control characters by their escape)
Ascii ==
   <<"\\x00", "\\x01", "\\x02", "\\x03", "\\x04", "\\x05", "\\x06", "\\x07",
      "\\x08", "\\x09", "\\x0a", "\\x0b", "\\x0c", "\\x0d", "\\x0e", "\\x0f",
      "\\x10", "\\x11", "\\x12", "\\x13", "\\x14", "\\x15", "\\x16", "\\x17",
      "\\x18", "\\x19", "\\x1a", "\\x1b", "\\x1c", "\\x1d", "\\x1e", "\\x1f",
      " ", "!", "\"", "#", "$", "%", "&", "'",
      "(", ")", "*", "+", ",", "-", ".", "/",
      "0", "1", "2", "3", "4", "5", "6", "7",
      "8", "9", ":", ";", "<", "=", ">", "?",
      "@", "A", "B", "C", "D", "E", "F", "G",
      "H", "I", "J", "K", "L", "M", "N", "O",
      "P", "Q", "R", "S", "T", "U", "V", "W",
      "X", "Y", "Z", "[", "\\", "]", "^", "_",
      "\\x60", "a", "b", "c", "d", "e", "f", "g",
      "h", "i", "j", "k", "l", "m", "n", "o",
      "p", "q", "r", "s", "t", "u", "v", "w",
      "x", "y", "z", "{", "|", "}", "~", "\\x7f" >>
chr(n) == Ascii[n + 1]
HexDigits == <<"0", "1", "2", "3", "4", "5", "6", "7", "8", "9",
               "a", "b", "c", "d", "e", "f", "A", "B", "C", "D", "E", "F">>
IsHex(c) == \E i \in 1..Len(HexDigits) : HexDigits[i] = c
HexVal(c) == LET i == CHOOSE j \in 1..Len(HexDigits) : HexDigits[j] = c
             IN  IF i <= 16 THEN i - 1 ELSE i - 7

\* urllib.parse.unquote on a string whose escapes are below %80: '%' followed
\* by two hexadecimal digits becomes the character of that code, any other
\* '%' stays (mail_processor.py:329)
RECURSIVE unquote(_)
unquote(s) ==
    IF s = << >> THEN s
    ELSE IF s[1] = "%" /\ Len(s) >= 3 /\ IsHex(s[2]) /\ IsHex(s[3])
         THEN <<chr(16 * HexVal(s[2]) + HexVal(s[3]))>> \o unquote(SubSeq(s, 4, Len(s)))
         ELSE <<s[1]>> \o unquote(Tail(s))

\* mail_processor.py:321
separator == <<"'", "'">>
StartsWith(s, t) == Len(s) >= Len(t) /\ SubSeq(s, 1, Len(t)) = t

\* str.split(separator)[-1] (mail_processor.py:322-324): the separators are
\* found from the left without overlap; field is the text since the last one
RECURSIVE LastField(_, _)
LastField(s, field) ==
    IF s = << >> THEN field
    ELSE IF StartsWith(s, separator)
         THEN LastField(SubSeq(s, Len(separator) + 1, Len(s)), << >>)
         ELSE LastField(Tail(s), Append(field, s[1]))

\* mail_processor.py:295-334 (str(header) of a string is the string; unquote
\* of a string raises nothing)
decode_email_header(header) == unquote(LastField(header, << >>))

\* str.replace('..', '') (mail_processor.py:291): occurrences from the left
\* without overlap
RECURSIVE RemoveDotDot(_), RemoveFirstDotDot(_)
RemoveFirstDotDot(s) ==
    IF Len(s) < 2 THEN s
    ELSE IF s[1] = "." /\ s[2] = "." THEN SubSeq(s, 3, Len(s))
         ELSE <<s[1]>> \o RemoveFirstDotDot(Tail(s))
RemoveDotDot(s) ==
    IF Len(s) < 2 THEN s
    ELSE IF s[1] = "." /\ s[2] = "." THEN RemoveDotDot(SubSeq(s, 3, Len(s)))
         ELSE <<s[1]>> \o RemoveDotDot(Tail(s))

\* the character class of mail_processor.py:292
Forbidden == {"<", ">", ":", "\"", "/", "\\", "|", "?", "*"}
ReplacementDropped(c) == << >>
Replacement(c) == <<"_">>
RECURSIVE ReplaceForbidden(_)
ReplaceForbidden(s) ==
    IF s = << >> THEN s
    ELSE (IF s[1] \in Forbidden THEN Replacement(s[1]) ELSE <<s[1]>>)
             \o ReplaceForbidden(Tail(s))

\* mail_processor.py:290-292
sanitize_filename(filename) == ReplaceForbidden(RemoveDotDot(filename))

\* os.path.splitext (posixpath): the extension starts at the last dot of the
\* last path component, unless only dots precede it there
LastIndex(s, c) == IF \E i \in 1..Len(s) : s[i] = c
                   THEN CHOOSE i \in 1..Len(s) : s[i] = c /\ \A j \in (i + 1)..Len(s) : s[j] # c
                   ELSE 0
splitext(p) ==
    LET sepIndex == LastIndex(p, "/")
        dotIndex == LastIndex(p, ".")
    IN  IF dotIndex > sepIndex /\ \E i \in (sepIndex + 1)..(dotIndex - 1) : p[i] # "."
        THEN <<SubSeq(p, 1, dotIndex - 1), SubSeq(p, dotIndex, Len(p))>>
        ELSE <<p, << >> >>

\* str(counter) for counter >= 0
RECURSIVE str(_)
str(n) == IF n < 10 THEN <<HexDigits[n + 1]>> ELSE str(n \div 10) \o <<HexDigits[(n % 10) + 1]>>

\* mail_processor.py:280, 283: f"{name} ({counter}){extension}"
CandidateAfterExtension(original_filename, counter) ==
    original_filename \o <<" ", "(">> \o str(counter) \o <<")">>
Candidate(original_filename, counter) ==
    LET parts == splitext(original_filename)
    IN  parts[1] \o <<" ", "(">> \o str(counter) \o <<")">> \o parts[2]

\* mail_processor.py:356 original_filename = decode_email_header(original_filename_raw)
PSM_decode(p) ==
    /\ pc[p] = "decode"
    /\ attachment' = [attachment EXCEPT
                         !.original_filename = decode_email_header(attachment.filename_raw)]
    /\ pc' = [pc EXCEPT ![p] = "sanitize"]
    /\ UNCHANGED <<lockVars, lk, run, runs, mailVars, api, davVars>>

\* mail_processor.py:357 safe_filename = sanitize_filename(original_filename)
PSM_sanitize(p) ==
    /\ pc[p] = "sanitize"
    /\ attachment' = [attachment EXCEPT
                         !.safe_filename = sanitize_filename(attachment.original_filename)]
    /\ pc' = [pc EXCEPT ![p] = "probe"]
    /\ UNCHANGED <<lockVars, lk, run, runs, mailVars, api, davVars>>

\* what requests.head(...) can do (mail_processor.py:264): a response with
\* status 200, a response with another status, a RequestException
HeadOutcomes == {"200", "404", "request_error"}

\* mail_processor.py:263-268: True on status 200; a request error is taken as
\* 'the file does not exist'
webdav_file_exists_unless_404(outcome) == outcome # "404"
webdav_file_exists(outcome) == outcome = "200"

\* mail_processor.py:271-287 find_unique_filename, one webdav_file_exists call
\* at a time; the remote directory holds at most MaxCounter candidates
\* mail_processor.py:281-287: 'while True' is left only by the return taken
\* when the probe answers 'does not exist'; no counter value ends the loop
ProbeAgainAtMostOnce(exists, counter) == exists /\ counter < 1
ProbeAgain(exists, counter) == exists

find_unique_filename(p) ==
    /\ pc[p] = "probe"
    /\ LET counter == attachment.counter
           new_filename == IF counter = 0 THEN attachment.safe_filename
                           ELSE Candidate(attachment.safe_filename, counter)
       IN  \E outcome \in HeadOutcomes :
              LET exists == webdav_file_exists(outcome)
              IN  /\ outcome = "200" => counter < MaxCounter
                  /\ attachment' =
                        [attachment EXCEPT
                            !.probed = Append(@, [filename |-> new_filename, exists |-> exists,
                                                  outcome |-> outcome]),
                            !.counter = IF ProbeAgain(exists, counter) THEN @ + 1 ELSE @,
                            !.final_filename = IF ProbeAgain(exists, counter) THEN @
                                               ELSE new_filename]
                  /\ pc' = [pc EXCEPT ![p] = IF ProbeAgain(exists, counter) THEN "probe"
                                               ELSE "named"]
    /\ UNCHANGED <<lockVars, lk, run, runs, mailVars, api, davVars>>

\* mail_processor.py:363-385: the size test, then
\* upload_to_webdav(config, attachment_content, final_filename, attachment_size)
PSM_put(p) ==
    /\ pc[p] = "named"
    /\ \E size \in Sizes :
          IF Oversized(size)
          THEN /\ pc' = [pc EXCEPT ![p] = "skipped"]
               /\ UNCHANGED upload_logs
          ELSE \E put \in PutOutcomes, dbS \in BOOLEAN, dbD \in BOOLEAN, dbL \in BOOLEAN :
                  /\ upload_to_webdav(attachment.final_filename,
                                      UploadOutcome(<<"Env">>, dbS, dbD, put), dbL)
                  /\ pc' = [pc EXCEPT ![p] = "uploaded"]
    /\ UNCHANGED <<lockVars, lk, run, runs, mailVars, api, attachment, webdav_servers,
                   default_webdav_server, last_upload>>

InitNames ==
    /\ now = 0
    /\ app_locks = [n \in LockNames |-> NoRow]
    /\ rowLock = [n \in LockNames |-> NoProc]
    /\ grants = [n \in LockNames |-> 0]
    /\ stolen = FALSE
    /\ pc = [p \in Procs |-> IF p = Worker THEN "decode" ELSE "idle"]
    /\ lk = [p \in Procs |-> NoCall]
    /\ run = [p \in Procs |-> NoRun]
    /\ runs = 0
    /\ msgs = << >>
    /\ mailbox = {}
    /\ seen = {}
    /\ webdav_servers = {}
    /\ default_webdav_server = NoName
    /\ upload_logs = << >>
    /\ last_upload = [p \in Procs |-> NoUpload]
    /\ \E h \in Headers : attachment = [NoAttachment EXCEPT !.filename_raw = h]
    /\ api = NoApi

NextNames ==
    \/ PSM_decode(Worker)
    \/ PSM_sanitize(Worker)
    \/ find_unique_filename(Worker)
    \/ PSM_put(Worker)

SpecNames == InitNames /\ [][NextNames]_vars


\* ------------------------------------------------- the HTTP endpoints (app.py)

\* requests accepted by the two endpoints in one behaviour
MaxRequests == 2

\* f"{v}": str(None) is 'None'
format(v) == IF v.type = "NoneType" THEN <<"N", "o", "n", "e">> ELSE v.value

\* app.py:86, 95, 115: f"Bearer {key}"
Bearer(key) == Str(<<"B", "e", "a", "r", "e", "r", " ">> \o format(key))

\* key values: unset, the empty string, a secret
ExternalKeys == {None, Str(<< >>), Str(<<"x">>)}
InternalKeys == {None, Str(<< >>), Str(<<"i">>)}

\* Authorization headers a client can send: none, or a bearer credential
ClientHeaders ==
    {None} \cup {Bearer(k) : k \in {None, Str(<<"x">>), Str(<<"i">>), Str(<<"w">>)}}

Response(status, message) == [status |-> status, message |-> message]

\* app.py:92-104: what run_task answers after requests.post(..., timeout=0.5):
\* ReadTimeout is passed over, any other exception is an error response, a
\* response of any status is not inspected
AfterPostTimeoutIsError(outcome) ==
    IF outcome = "response" THEN Response(202, "dispatched") ELSE Response(500, "error")
AfterPost(outcome) ==
    IF outcome \in {"ReadTimeout", "response"}
    THEN Response(202, "dispatched")
    ELSE Response(500, "error")

\* app.py:73-96 run_task up to the POST to the internal worker; the POST either
\* fails to connect or leaves the request at the worker
run_task(h) ==
    /\ api.trigger_pc = "idle"
    /\ api.requests < MaxRequests
    /\ LET id == api.requests + 1
           a == [api EXCEPT !.requests = id, !.trigger_header = h, !.trigger_id = id,
                            !.post_outcome = "none", !.reply = NoResponse]
       IN  IF Falsy(api.api_secret_key) \/ Falsy(api.internal_api_key)
           THEN api' = [a EXCEPT !.trigger_response = Response(500, "not configured")]
           ELSE IF h # Bearer(api.api_secret_key)
           THEN api' = [a EXCEPT !.trigger_response = Response(401, "Unauthorized")]
           ELSE \/ api' = [a EXCEPT !.post_outcome = "ConnectionError",
                                    !.trigger_response = AfterPost("ConnectionError")]
                \/ /\ api.worker_request = NoRequest
                   /\ api' = [a EXCEPT !.trigger_pc = "waiting",
                                       !.trigger_response = NoResponse,
                                       !.worker_request =
                                           [auth_header |-> Bearer(api.internal_api_key),
                                            via |-> "run_task", id |-> id]]
    /\ UNCHANGED <<lockVars, pc, lk, run, runs, mailVars, attachment, davVars>>

\* app.py:96-104: the POST ends: no byte within the read timeout, the
\* connection breaks, or the worker's response arrives
run_task_return ==
    /\ api.trigger_pc = "waiting"
    /\ \E outcome \in {"ReadTimeout", "ConnectionError", "response"} :
          /\ (outcome = "response") <=> (api.reply # NoResponse)
          /\ api' = [api EXCEPT !.trigger_pc = "idle", !.post_outcome = outcome,
                                !.trigger_response = AfterPost(outcome)]
    /\ UNCHANGED <<lockVars, pc, lk, run, runs, mailVars, attachment, davVars>>

\* a client other than run_task posts to /api/internal/worker
client_post_worker(h) ==
    /\ api.requests < MaxRequests
    /\ api.worker_request = NoRequest
    /\ api' = [api EXCEPT !.requests = @ + 1,
                          !.worker_request =
                              [auth_header |-> h, via |-> "client", id |-> api.requests + 1]]
    /\ UNCHANGED <<lockVars, pc, lk, run, runs, mailVars, attachment, davVars>>

\* the response of the internal worker reaches run_task if it still waits for it
Deliver(a, request, response) ==
    IF request.via = "run_task" /\ a.trigger_pc = "waiting" /\ a.trigger_id = request.id
    THEN [a EXCEPT !.reply = response, !.worker_response = response]
    ELSE [a EXCEPT !.worker_response = response]

\* app.py:115: the test that lets a request to the internal worker through
AuthorizedInternal(auth_header, internal_api_key) ==
    ~(Falsy(auth_header) \/ auth_header # Bearer(internal_api_key))

\* app.py:107-120 internal_worker up to the call of process_emails()
internal_worker(p) ==
    /\ pc[p] = "idle"
    /\ api.worker_request # NoRequest
    /\ LET request == api.worker_request
           a == [api EXCEPT !.worker_request = NoRequest]
       IN  IF AuthorizedInternal(request.auth_header, api.internal_api_key)
           THEN /\ runs' = runs + 1
                /\ Goto(p, "acq_conn")
                /\ api' = [a EXCEPT !.serving = request, !.worker_response = NoResponse]
           ELSE /\ api' = Deliver(a, request, Response(401, "Unauthorized"))
                /\ UNCHANGED <<pc, runs>>
    /\ UNCHANGED <<lockVars, lk, run, mailVars, attachment, davVars>>

\* app.py:119-123: process_emails() returned, or raised
internal_worker_return(p) ==
    /\ pc[p] = "done"
    /\ api.serving # NoRequest
    /\ Goto(p, "idle")
    /\ lk' = [lk EXCEPT ![p] = NoCall]
    /\ SetRun(p, NoRun)
    /\ api' = Deliver([api EXCEPT !.serving = NoRequest], api.serving,
                      IF run[p].propagated THEN Response(500, "error")
                      ELSE Response(200, "success"))
    /\ UNCHANGED <<lockVars, runs, mailVars, attachment, davVars>>

\* a mailbox with one message that has one attachment
ApiBoxes == {<< <<size>> >> : size \in Sizes}

InitApi ==
    /\ now = 0
    /\ app_locks = [n \in LockNames |-> NoRow]
    /\ rowLock = [n \in LockNames |-> NoProc]
    /\ grants = [n \in LockNames |-> 0]
    /\ stolen = FALSE
    /\ pc = [p \in Procs |-> "idle"]
    /\ lk = [p \in Procs |-> NoCall]
    /\ run = [p \in Procs |-> NoRun]
    /\ runs = 0
    /\ msgs \in ApiBoxes
    /\ mailbox = 1..Len(msgs)
    /\ seen = {}
    /\ webdav_servers = {}
    /\ default_webdav_server = NoName
    /\ upload_logs = << >>
    /\ last_upload = [p \in Procs |-> NoUpload]
    /\ attachment = NoAttachment
    /\ \E ek \in ExternalKeys, ik \in InternalKeys :
          api = [NoApi EXCEPT !.api_secret_key = ek, !.internal_api_key = ik]

NextApi ==
    \/ \E h \in ClientHeaders : run_task(h)
    \/ run_task_return
    \/ \E h \in ClientHeaders : client_post_worker(h)
    \/ internal_worker(Worker)
    \/ PE_steps(Worker)
    \/ internal_worker_return(Worker)

SpecApi == InitApi /\ [][NextApi]_vars

\* ---------------------------------- the lock API on a table of an older version

\* the row of the lock may be one without timestamp
InitUnstamped ==
    /\ InitCommon
    /\ app_locks \in [LockNames -> {UnlockedRow, UnstampedRow}]
    /\ msgs = << >>
    /\ mailbox = {}
    /\ webdav_servers = {}
    /\ default_webdav_server = NoName

NextUnstamped ==
    \/ Tick
    \/ CallAcquire(Worker)
    \/ acquire_lock(Worker)
    \/ ReturnAcquire(Worker)
    \/ CallRelease(Worker)
    \/ CallCleanup(Worker)
    \/ ReturnRelease(Worker)

SpecUnstamped == InitUnstamped /\ [][NextUnstamped]_vars

\* -------------------------------------------- process termination and start

\* the process is killed while the invocation of p is in progress: the finally
\* block of process_emails (mail_processor.py:460-463) does not run, and the
\* store rolls back the open transaction of acquire_lock
Terminate(p) ==
    /\ pc[p] \notin {"idle", "down"}
    /\ Goto(p, "down")
    /\ rowLock' = [n \in LockNames |-> IF rowLock[n] = p THEN NoProc ELSE rowLock[n]]
    /\ lk' = [lk EXCEPT ![p] = NoCall]
    /\ SetRun(p, NoRun)
    /\ UNCHANGED <<now, app_locks, grants, stolen, runs, mailVars, api, attachment, davVars>>

\* app.py:1-9, 125-126: the next process starts; loading the module creates
\* the Flask application and neither calls init_db nor cleanup_stale_locks
ProcessStart(p) ==
    /\ pc[p] = "down"
    /\ Goto(p, "idle")
    /\ UNCHANGED <<lockVars, lk, run, runs, mailVars, api, attachment, davVars>>

NextRestart ==
    \/ Tick
    \/ Trigger(Worker, SeqRuns)
    \/ process_emails(Worker)
    \/ Terminate(Worker)
    \/ ProcessStart(Worker)

SpecRestart == Init /\ [][NextRestart]_vars

\* ------------------------- three invocations around a lock that is taken over

\* invocations started in one behaviour
OverrideRuns == 3

\* the mailbox holds no message, or one message with one attachment
InitOverride == InitRuns({<< >>, << <<MAX_ATTACHMENT_SIZE>> >>})

\* the two workers whose invocations overlap
Overlapping == {Worker, CHOOSE p \in Procs : p # Worker}

NextOverride ==
    \/ Tick
    \/ \E p \in Overlapping : Trigger(p, OverrideRuns) \/ process_emails(p)

SpecOverride == InitOverride /\ [][NextOverride]_vars

\* ==================================================================== claims

\* the columns (is_locked, locked_at) of every lock row
LockFields == [n \in LockNames |-> <<app_locks[n].is_locked, app_locks[n].locked_at>>]

\* C1: between two consecutive unlocks of the row X, at most one of the
\* acquire_lock(X) calls that found the row unlocked (or created it) returns
\* True, whatever the interleaving of the calls.
C1_MutualExclusion == \A n \in LockNames : grants[n] <= 1

\* two calls in flight at the same instant, one granted, the other refused
C1_Witness ==
    \E p \in Procs, q \in Procs :
        /\ p # q /\ pc[p] = "acq_ret" /\ pc[q] = "acq_ret"
        /\ lk[p].name = lk[q].name
        /\ lk[p].result /\ ~lk[p].forced /\ ~lk[p].seen.is_locked
        /\ ~lk[q].result /\ ~lk[q].err /\ lk[q].seen.is_locked
        /\ grants[lk[p].name] = 1

C3_ReleasedAndUnlocked ==
    \A p \in Procs :
        (pc[p] = "done" /\ lk[p].result)
            => (run[p].released = 1 /\ ~app_locks[LOCK_NAME].is_locked)

\* C3 amended: an invocation that acquired the lock has executed release_lock
\* exactly once when it ends (never before the end of the try block), on every
\* exit path; the lock row is then unlocked when that release_lock reached the
\* store (successive invocations of one worker).
C3_ReleasedOnce ==
    \A p \in Procs :
        /\ (Holding(p) => run[p].released = 0)
        /\ (pc[p] = "done" /\ lk[p].result)
              => /\ run[p].released = 1
                 /\ (run[p].relOk => ~app_locks[LOCK_NAME].is_locked)

\* an invocation that left the try block by an exception, released, row unlocked
C3_Witness ==
    \E p \in Procs :
        /\ pc[p] = "done" /\ lk[p].result /\ run[p].raised
        /\ run[p].released = 1 /\ run[p].relOk
        /\ app_locks[LOCK_NAME] = UnlockedRow

\* C4: an invocation whose acquire_lock returns False never enters the span
\* (no session, no message, no upload, no release), and none of its steps
\* changes the mailbox, the upload log or the columns of a lock row.
C4_FailedAcquireNoOp ==
    /\ [](\A p \in Procs :
            (pc[p] \in {"acq_ret", "done"} /\ ~lk[p].result) => run[p] = NoRun)
    /\ [](\A p \in Procs : InRun(p) => lk[p].result)
    /\ [][\A p \in Procs :
            ((pc'[p] # pc[p]) /\ pc'[p] \in {"acq_ret", "done", "idle"} /\ ~lk'[p].result
                /\ pc[p] \in {"acq_conn", "acq_insert", "acq_select", "acq_decide",
                              "acq_ret", "done"}
                /\ ~lk[p].result)
            => /\ LockFields' = LockFields
               /\ mailbox' = mailbox /\ seen' = seen
               /\ upload_logs' = upload_logs
               /\ (pc[p] = "acq_ret" => pc'[p] = "done")]_vars

\* a refused invocation has ended while the holder is still running
C4_Witness ==
    \E p \in Procs, q \in Procs :
        /\ p # q /\ pc[p] = "done" /\ ~lk[p].result
        /\ InRun(q) /\ app_locks[LOCK_NAME].is_locked

C6_FailFast ==
    \A p \in Procs :
        run[p].failedAt # 0
            => /\ pc[p] = "verdict" /\ ~run[p].all_ok
               /\ \A j \in run[p].tried \cup run[p].calls : j <= run[p].failedAt

\* the first of two attachments failed to upload, the second was not started
C6_Witness ==
    \E p \in Procs :
        /\ pc[p] = "verdict" /\ run[p].failedAt = 1
        /\ Len(msgs[run[p].uid]) >= 2 /\ run[p].tried = {1} /\ ~run[p].all_ok

\* C7: an attachment measured above MAX_ATTACHMENT_SIZE is skipped, never
\* passed to upload_to_webdav, and does not fail the message: the verdict is
\* True when every other attachment was uploaded successfully, and the message
\* is then deleted (when imbox.delete returns).
C7_OversizedSkipped ==
    /\ [](\A p \in Procs :
            pc[p] \in {"att", "upload", "verdict"} /\ run[p].att # 0
            => LET m == msgs[run[p].uid]
               IN  /\ \A k \in run[p].calls : m[k] <= MAX_ATTACHMENT_SIZE
                   /\ \A k \in run[p].skipped : m[k] > MAX_ATTACHMENT_SIZE
                   /\ run[p].skipped \cap run[p].calls = {}
                   /\ (pc[p] = "upload" => m[run[p].att] <= MAX_ATTACHMENT_SIZE)
                   /\ (pc[p] = "verdict"
                         /\ \A k \in 1..Len(m) : k \in run[p].skipped \cup run[p].okAtt)
                      => run[p].all_ok)
    /\ [][\A p \in Procs :
            (pc[p] = "verdict" /\ pc'[p] = "loop" /\ run[p].skipped # {}
               /\ \A k \in 1..Len(msgs[run[p].uid]) : k \in run[p].skipped \cup run[p].okAtt)
            => run[p].uid \notin mailbox']_vars

\* a message with an oversized and a successfully uploaded attachment, verdict True
C7_Witness ==
    \E p \in Procs :
        /\ pc[p] = "verdict" /\ run[p].all_ok
        /\ run[p].skipped = {1} /\ run[p].okAtt = {2} /\ run[p].calls = {2}

\* C8 as stated: one invocation hands at most MAX_EMAILS_PER_RUN messages to
\* _process_single_message, failed messages included.
C8_AtMostCapHanded ==
    \A p \in Procs : Len(run[p].handed) <= MAX_EMAILS_PER_RUN

\* C9 as stated, for the calls whose log write reaches the store and whose PUT
\* raises nothing but RequestException: the call appends exactly one entry,
\* with the status of its result and the name of its target (NULL when no
\* target was resolved).
C9_OneLogEntryPerCall ==
    \A p \in Procs :
        (last_upload[p].called /\ last_upload[p].logOk /\ ~last_upload[p].raised)
            => /\ Len(last_upload[p].appended) = 1
               /\ last_upload[p].appended[1].status =
                     (IF last_upload[p].result THEN "Success" ELSE "Failed")
               /\ last_upload[p].appended[1].server_name = last_upload[p].target

\* C10: a call that read a row with is_locked and a timestamp, and met no
\* storage error, returns True exactly when now - locked_at > timeout; the
\* row is then locked with locked_at = now, and otherwise left as it was read.
C10_TimeoutOverride ==
    [][\A p \in Procs :
          (pc[p] = "acq_decide" /\ pc'[p] = "acq_ret" /\ ~lk'[p].err
              /\ lk[p].seen.exists /\ lk[p].seen.is_locked /\ lk[p].seen.locked_at # NULL)
          => LET age == now - lk[p].seen.locked_at
                 n == lk[p].name
             IN  /\ lk'[p].result = (age > lk[p].timeout)
                 /\ IF age > lk[p].timeout
                    THEN app_locks'[n] = [exists |-> TRUE, is_locked |-> TRUE,
                                          locked_at |-> now]
                    ELSE app_locks'[n] = app_locks[n] /\ app_locks[n] = lk[p].seen]_vars

\* a call that took over a lock older than its timeout
C10_Witness ==
    \E p \in Procs :
        /\ pc[p] = "acq_ret" /\ lk[p].result /\ lk[p].forced
        /\ lk[p].seen.is_locked /\ lk[p].seen.locked_at # NULL
        /\ now - lk[p].seen.locked_at > lk[p].timeout
        /\ lk[p].timeout > 0
        /\ app_locks[lk[p].name] = LockedRow(now)

\* C11 as stated: when a release_lock(X) call has returned, the row X, if it
\* exists, has is_locked = FALSE and locked_at = NULL.
C11_ReleaseAlwaysUnlocks ==
    [][\A p \in Procs :
          (pc[p] = "idle" /\ pc'[p] = "rel_ret")
          => (app_locks'[lk'[p].name].exists
                 => app_locks'[lk'[p].name] = UnlockedRow)]_vars

\* C11 amended: release_lock(X) raises nothing; when it reaches the store, the
\* table after the call is the table with row X (if it exists) unlocked and
\* its timestamp NULL, no row created, no other row touched, and a second
\* release of X would change nothing more; when it does not reach the store,
\* the table is left as it was.
C11_ReleaseIdempotent ==
    /\ [](\A n \in LockNames :
            LET once == ReleaseEffect(app_locks, n)
            IN  /\ ReleaseEffect(once, n) = once
                /\ once[n].exists = app_locks[n].exists
                /\ once[n].exists => once[n] = UnlockedRow
                /\ \A m \in LockNames \ {n} : once[m] = app_locks[m])
    /\ [][\A p \in Procs :
            (pc[p] = "idle" /\ pc'[p] = "rel_ret")
            => LET n == lk'[p].name
               IN  /\ lk'[p].seen = app_locks[n]
                   /\ IF lk'[p].err
                      THEN app_locks' = app_locks
                      ELSE /\ app_locks' = ReleaseEffect(app_locks, n)
                           /\ app_locks'[n].exists = app_locks[n].exists
                           /\ app_locks'[n].exists => app_locks'[n] = UnlockedRow]_vars

\* two calls in a row on a row that was locked: the first found it locked, the
\* second found it unlocked, and the row is unlocked
C11_Witness ==
    \E p \in Procs, q \in Procs :
        /\ p # q /\ pc[p] = "rel_ret" /\ pc[q] = "rel_ret"
        /\ lk[p].name = lk[q].name /\ ~lk[p].err /\ ~lk[q].err
        /\ lk[p].seen.is_locked
        /\ lk[q].seen = UnlockedRow
        /\ app_locks[lk[p].name] = UnlockedRow

\* C12: an acquire_lock call that cannot connect or meets a storage error
\* returns False (never True), ends its transaction without changing the
\* columns of any lock row, and process_emails then ends without entering the
\* run: no session, no message handed, nothing deleted, no upload logged.
C12_StorageErrorFailsAcquire ==
    /\ [](\A p \in Procs : lk[p].err => (pc[p] = "acq_ret" /\ ~lk[p].result))
    /\ [][\A p \in Procs :
            /\ (lk'[p].err /\ ~lk[p].err)
                  => /\ pc'[p] = "acq_ret" /\ ~lk'[p].result
                     /\ LockFields' = LockFields
                     /\ \A n \in LockNames : rowLock'[n] # p
            /\ (lk[p].err /\ pc'[p] # pc[p])
                  => /\ pc'[p] = "done" /\ run'[p] = NoRun
                     /\ mailbox' = mailbox /\ seen' = seen
                     /\ upload_logs' = upload_logs
                     /\ app_locks' = app_locks]_vars

\* a call failed after its SELECT ... FOR UPDATE had read an unlocked row: the
\* row is still unlocked and the row lock is free again
C12_Witness ==
    \E p \in Procs :
        /\ pc[p] = "acq_ret" /\ lk[p].err /\ ~lk[p].result
        /\ lk[p].seen = UnlockedRow
        /\ app_locks[lk[p].name] = UnlockedRow
        /\ rowLock[lk[p].name] = NoProc

\* C13 as stated: when a cleanup_stale_locks call has returned, no row of the
\* lock table has is_locked = TRUE.
C13_SweepAlwaysClears ==
    [][\A p \in Procs :
          (pc[p] = "idle" /\ pc'[p] = "sweep_ret")
          => \A n \in LockNames : ~app_locks'[n].is_locked]_vars

\* C13 amended: a cleanup_stale_locks call that reaches the store leaves no
\* row locked: every row that was locked, whatever its age, is unlocked with
\* a NULL timestamp, an unlocked row is unchanged, no row is created or
\* deleted; a call that does not reach the store changes nothing and raises
\* nothing.
C13_SweepClearsAll ==
    [][\A p \in Procs :
          (pc[p] = "idle" /\ pc'[p] = "sweep_ret")
          => IF lk'[p].err
             THEN app_locks' = app_locks
             ELSE \A n \in LockNames :
                     /\ ~app_locks'[n].is_locked
                     /\ app_locks'[n].exists = app_locks[n].exists
                     /\ (app_locks[n].exists /\ app_locks[n].is_locked)
                           => app_locks'[n] = UnlockedRow
                     /\ ~app_locks[n].is_locked => app_locks'[n] = app_locks[n]]_vars

\* a sweep found the row locked at this very instant (age 0) and unlocked it
C13_Witness ==
    \E p \in Procs :
        /\ pc[p] = "sweep_ret" /\ ~lk[p].err
        /\ lk[p].seen = LockedRow(now)
        /\ app_locks[LOCK_NAME] = UnlockedRow

\* the step of a direct upload_to_webdav call, and what the call found and did
UploadStep(p) == pc[p] \in {"idle", "probed"} /\ pc'[p] = "up_ret"
Range(s) == {s[i] : i \in 1..Len(s)}
EnabledServers == {s \in webdav_servers : s.enabled}

\* C14: when the persisted enabled targets read by the call are not empty and
\* one of them bears the name read from the default setting, the PUT goes to
\* exactly that target, whatever its priority or position; the two reads
\* return the persisted values when they reach the store.
C14_DefaultTargetSelected ==
    [][\A p \in Procs :
          UploadStep(p)
          => LET u == last_upload'[p]
             IN  /\ u.readsOk[1]
                      => /\ Range(u.servers_from_db) = {s.name : s \in EnabledServers}
                         /\ Len(u.servers_from_db) = Cardinality(EnabledServers)
                 /\ (u.readsOk[2] /\ u.put) => u.default_server_name = default_webdav_server
                 /\ (u.servers_from_db # << >>
                        /\ u.default_server_name \in Range(u.servers_from_db))
                      => /\ u.put /\ u.target = u.default_server_name
                         /\ "no_default" \notin u.warnings
                 /\ (u.readsOk = <<TRUE, TRUE>>
                        /\ \E s \in EnabledServers : s.name = default_webdav_server)
                      => u.put /\ u.target = default_webdav_server]_vars

\* the default target is the second of the list (priority 1 after priority 0)
C14_Witness ==
    \E p \in Procs :
        /\ pc[p] = "up_ret" /\ last_upload[p].readsOk = <<TRUE, TRUE>>
        /\ last_upload[p].servers_from_db = <<"B", "A">>
        /\ last_upload[p].default_server_name = "A"
        /\ last_upload[p].put /\ last_upload[p].target = "A"

\* C15: when the call read persisted enabled targets and none of them bears
\* the name read from the default setting (unset, or naming a missing or
\* disabled target), the PUT goes to the enabled target that is first by
\* priority, then by id, and the warning of line 200 is emitted; whenever
\* enabled targets were read, the target is one of them, never a disabled one.
C15_FirstEnabledSelected ==
    [][\A p \in Procs :
          UploadStep(p)
          => LET u == last_upload'[p]
             IN  /\ u.servers_from_db # << >>
                      => \E s \in webdav_servers : s.enabled /\ s.name = u.target
                 /\ (u.servers_from_db # << >>
                        /\ u.default_server_name \notin Range(u.servers_from_db))
                      => /\ u.put /\ u.target = u.servers_from_db[1]
                         /\ "no_default" \in u.warnings
                         /\ \E s \in EnabledServers :
                               /\ s.name = u.target
                               /\ \A t \in EnabledServers \ {s} :
                                     \/ s.priority < t.priority
                                     \/ (s.priority = t.priority /\ s.id < t.id)]_vars

\* the default setting names a disabled target: the enabled one is selected
C15_Witness ==
    \E p \in Procs :
        /\ pc[p] = "up_ret"
        /\ \E s \in webdav_servers : ~s.enabled /\ s.name = last_upload[p].default_server_name
        /\ last_upload[p].servers_from_db # << >>
        /\ last_upload[p].put /\ last_upload[p].target = "B"
        /\ "no_default" \in last_upload[p].warnings

\* C16: when the call read no persisted enabled target, it selects from the
\* static list and emits the warning of line 184 (the only entry of a
\* one-entry list is selected); when the static list is empty too, it returns
\* False and issues no PUT.
C16_StaticFallback ==
    [][\A p \in Procs :
          UploadStep(p)
          => LET u == last_upload'[p]
             IN  u.servers_from_db = << >>
                 => IF u.static = << >>
                    THEN ~u.result /\ ~u.put /\ u.target = NoName
                    ELSE /\ u.put /\ u.target \in Range(u.static)
                         /\ "no_db_servers" \in u.warnings
                         /\ Len(u.static) = 1 => u.target = u.static[1]]_vars

\* every persisted target is disabled and the static list has one entry
C16_Witness ==
    \E p \in Procs :
        /\ pc[p] = "up_ret" /\ webdav_servers # {} /\ EnabledServers = {}
        /\ last_upload[p].readsOk[1]
        /\ last_upload[p].static = <<"Env">>
        /\ last_upload[p].put /\ last_upload[p].target = "Env"
        /\ "no_db_servers" \in last_upload[p].warnings

\* the name has been decoded / sanitized / resolved
Decoded == pc[Worker] \in {"sanitize", "probe", "named", "skipped", "uploaded"}
Sanitized == pc[Worker] \in {"probe", "named", "skipped", "uploaded"}
Named == pc[Worker] \in {"named", "skipped", "uploaded"}
NonDots(s) == SelectSeq(s, LAMBDA c : c # ".")
Answers(probed) == [i \in 1..Len(probed) |-> probed[i].exists]

\* C17: find_unique_filename probes the name, then 'base (1).ext',
\* 'base (2).ext', ... in this order, each after the previous one was reported
\* present, and returns the first one reported absent: the name itself when it
\* is reported absent, never a name reported present; with a.txt and
\* a (1).txt reported present, a.txt yields a (2).txt.
C17_UniqueFilename ==
    LET pr == attachment.probed
        n == Len(pr)
        parts == splitext(attachment.safe_filename)
    IN  /\ \A i \in 1..n :
              pr[i].filename = IF i = 1 THEN attachment.safe_filename
                               ELSE parts[1] \o <<" ", "(">> \o str(i - 1) \o <<")">> \o parts[2]
        /\ \A i \in 1..(n - 1) : pr[i].exists
        /\ Named => /\ n >= 1 /\ ~pr[n].exists
                    /\ attachment.final_filename = pr[n].filename
                    /\ \A i \in 1..n : pr[i].exists => pr[i].filename # attachment.final_filename
        /\ (Named /\ attachment.safe_filename = NameExample
                  /\ Answers(pr) = <<TRUE, TRUE, FALSE>>)
              => attachment.final_filename = <<"a", " ", "(", "2", ")", ".", "t", "x", "t">>

C17_Witness ==
    /\ Named /\ attachment.safe_filename = NameExample
    /\ Answers(attachment.probed) = <<TRUE, TRUE, FALSE>>
    /\ attachment.final_filename = <<"a", " ", "(", "2", ")", ".", "t", "x", "t">>

\* C19 as stated: sanitize_filename removes every '..' and replaces each of
\* < > : " / \ | ? * with '_'; '../../etc/passwd' gives 'etcpasswd' and
\* 'a:b/c*d' gives 'a_b_c_d'.
C19_SanitizeAsStated ==
    Sanitized
    => /\ attachment.safe_filename = ReplaceForbidden(RemoveDotDot(attachment.original_filename))
       /\ attachment.original_filename = PathExample
             => attachment.safe_filename = <<"e", "t", "c", "p", "a", "s", "s", "w", "d">>
       /\ attachment.original_filename = ForbiddenExample
             => attachment.safe_filename = <<"a", "_", "b", "_", "c", "_", "d">>

\* C19: sanitize_filename removes the '..' pairs (none is left) and then
\* replaces each of < > : " / \ | ? * with '_' (none is left, every other
\* character but the removed dots is kept in place); '../../etc/passwd' gives
\* '__etc_passwd' and 'a:b/c*d' gives 'a_b_c_d'.
C19_Sanitize ==
    Sanitized
    => LET o == attachment.original_filename
           s == attachment.safe_filename
       IN  /\ \A i \in 1..(Len(s) - 1) : ~(s[i] = "." /\ s[i + 1] = ".")
           /\ \A i \in 1..Len(s) : s[i] \notin Forbidden
           /\ Len(NonDots(s)) = Len(NonDots(o))
           /\ \A i \in 1..Len(NonDots(o)) :
                 NonDots(s)[i] = IF NonDots(o)[i] \in Forbidden THEN "_" ELSE NonDots(o)[i]
           /\ Len(s) <= Len(o) /\ (Len(o) - Len(s)) % 2 = 0
           /\ o = PathExample
                 => s = <<"_", "_", "e", "t", "c", "_", "p", "a", "s", "s", "w", "d">>
           /\ o = ForbiddenExample => s = <<"a", "_", "b", "_", "c", "_", "d">>

C19_Witness ==
    /\ Sanitized /\ attachment.original_filename = PathExample
    /\ attachment.safe_filename = <<"_", "_", "e", "t", "c", "_", "p", "a", "s", "s", "w", "d">>

\* the text after the last position at which the separator occurs
RECURSIVE AfterLastOccurrence(_, _)
AfterLastOccurrence(s, field) ==
    IF s = << >> THEN field
    ELSE IF StartsWith(s, separator)
         THEN AfterLastOccurrence(Tail(s), SubSeq(s, Len(separator) + 1, Len(s)))
         ELSE AfterLastOccurrence(Tail(s), field)

\* C20: decode_email_header returns the percent-decoding of the text after
\* the last occurrence of the separator '' in the header (of the whole header
\* when it has none); utf-8''report%20final.pdf gives 'report final.pdf'.
C20_DecodesAfterLastMarker ==
    Decoded
    => /\ attachment.original_filename
             = unquote(AfterLastOccurrence(attachment.filename_raw, attachment.filename_raw))
       /\ attachment.filename_raw = HeaderExample
             => attachment.original_filename
                   = <<"r", "e", "p", "o", "r", "t", " ", "f", "i", "n", "a", "l", ".", "p", "d", "f">>

\* C18: the existence probes of an attachment go to the target the PUT of
\* that attachment is then sent to.
C18_ProbesGoToPutTarget ==
    \A p \in Procs :
        (pc[p] = "up_ret" /\ last_upload[p].probe_target # NoName /\ last_upload[p].put)
        => last_upload[p].target = last_upload[p].probe_target

\* C27: an exception raised inside a run after the lock is acquired is
\* handled inside process_emails, which releases the lock and returns
\* normally: no exception reaches its caller.
C27_ExceptionsHandledInside ==
    \A p \in Procs : pc[p] = "done" => (run[p].released = 1 /\ ~run[p].propagated)

\* the first message handed by the first run has two attachments within the size limit
LogEntry(uid, k, status) == [filename |-> <<uid, k>>, status |-> status, server_name |-> "A"]
TwoAttachmentRun(p, u) ==
    /\ runs = 1 /\ run[p].handed = <<u>> /\ Len(msgs[u]) = 2
    /\ \A k \in 1..2 : msgs[u][k] <= MAX_ATTACHMENT_SIZE

\* C21: in a run over one message with two attachments, when both uploads
\* succeed the log holds two Success entries, the message is deleted and the
\* counter is 1; when the second upload fails with an HTTP error the log holds
\* one Success then one Failed entry, the message stays in the mailbox and the
\* counter is 0 (every log write reaching the store, imbox.delete returning).
C21_EndToEnd ==
    /\ [](\A p \in Procs :
            (pc[p] = "verdict" /\ TwoAttachmentRun(p, run[p].uid))
            => LET u == run[p].uid
               IN  /\ run[p].okAtt = {1, 2}
                         => /\ run[p].all_ok
                            /\ Len(upload_logs) = 2
                                  => upload_logs = <<LogEntry(u, 1, "Success"),
                                                     LogEntry(u, 2, "Success")>>
                   /\ run[p].failedAt = 2
                         => /\ ~run[p].all_ok /\ run[p].okAtt = {1}
                            /\ Len(upload_logs) = 2
                                  => upload_logs = <<LogEntry(u, 1, "Success"),
                                                     LogEntry(u, 2, "Failed")>>)
    /\ [](\A p \in Procs : \A u \in 1..Len(msgs) :
            (pc[p] = "done" /\ TwoAttachmentRun(p, u) /\ Len(msgs) = 1 /\ ~run[p].raised)
            => /\ upload_logs = <<LogEntry(u, 1, "Success"), LogEntry(u, 2, "Success")>>
                  => mailbox = {} /\ run[p].deleted = {u} /\ run[p].processed_count = 1
               /\ upload_logs = <<LogEntry(u, 1, "Success"), LogEntry(u, 2, "Failed")>>
                  => mailbox = {u} /\ run[p].deleted = {} /\ run[p].processed_count = 0)
    /\ [][\A p \in Procs :
            (pc[p] = "verdict" /\ pc'[p] = "loop" /\ TwoAttachmentRun(p, run[p].uid))
            => IF run[p].okAtt = {1, 2}
               THEN run[p].uid \notin mailbox' /\ run'[p].processed_count = 1
               ELSE run[p].uid \in mailbox' /\ run'[p].processed_count = 0]_vars

\* the run whose two uploads succeeded has ended
C21_Witness ==
    \E p \in Procs :
        /\ pc[p] = "done" /\ TwoAttachmentRun(p, 1) /\ ~run[p].raised
        /\ upload_logs = <<LogEntry(1, 1, "Success"), LogEntry(1, 2, "Success")>>
        /\ mailbox = {} /\ run[p].deleted = {1} /\ run[p].processed_count = 1

\* C22: after a False verdict the for loop is still running: the next step
\* of the run takes the next message of the listing (handing it to
\* _process_single_message unless its fetch raises), the counter not having
\* moved; a later message of the same run whose verdict is True is deleted.
C22_FalseVerdictDoesNotAbort ==
    /\ [][\A p \in Procs :
            (pc[p] = "verdict" /\ ~run[p].all_ok /\ pc'[p] # "verdict")
            => /\ pc'[p] = "loop" /\ run'[p].idx = run[p].idx + 1
               /\ run'[p].unread = run[p].unread
               /\ run'[p].processed_count = run[p].processed_count
               /\ ~CapReached(run'[p].processed_count)]_vars
    /\ [][\A p \in Procs :
            (pc[p] = "loop" /\ pc'[p] # "loop" /\ run[p].idx <= Len(run[p].unread)
                /\ ~CapReached(run[p].processed_count))
            => \/ pc'[p] = "msg" /\ run'[p].uid = run[p].unread[run[p].idx]
               \/ run'[p].raised]_vars
    /\ [][\A p \in Procs :
            (pc[p] = "verdict" /\ run[p].all_ok /\ pc'[p] = "loop"
                /\ \E i \in 1..(Len(run[p].handed) - 1) : run[p].handed[i] \in mailbox)
            => /\ run[p].uid \notin mailbox' /\ run[p].uid \in run'[p].deleted
               /\ \A i \in 1..(Len(run[p].handed) - 1) :
                     run[p].handed[i] \in mailbox => run[p].handed[i] \in mailbox']_vars

\* a run that retained its first message and deleted its second one has ended
C22_Witness ==
    \E p \in Procs :
        /\ pc[p] = "done" /\ ~run[p].raised /\ run[p].handed = <<1, 2>>
        /\ run[p].deleted = {2} /\ mailbox = {1}

HasOversized(u) == \E k \in 1..Len(msgs[u]) : Oversized(msgs[u][k])

\* C24 as stated: a message carrying an attachment above the size limit is
\* never deleted by any run.
C24_OversizedNeverDeleted ==
    [][\A u \in mailbox : HasOversized(u) => u \in mailbox']_vars

\* C24 amended: an attachment skipped for its size never makes the verdict
\* False: a False verdict of a message carrying one comes from an attachment
\* that was not skipped (failed upload, or exception while it was handled), a
\* message whose attachments are all skipped gets the verdict True without any
\* upload, and a message carrying an oversized attachment is deleted by the
\* first run in which its verdict is True; once deleted it is never matched
\* again.
C24_OversizedNotPersistent ==
    /\ [](\A p \in Procs :
            (pc[p] = "verdict" /\ run[p].uid # 0 /\ HasOversized(run[p].uid))
            => LET m == msgs[run[p].uid]
               IN  /\ ~run[p].all_ok
                        => \E k \in run[p].tried : k \notin run[p].skipped \cup run[p].okAtt
                   /\ \A k \in run[p].skipped : Oversized(m[k])
                   /\ (\A k \in 1..Len(m) : k \in run[p].skipped)
                        => run[p].all_ok /\ run[p].calls = {})
    /\ [][\A p \in Procs :
            (pc[p] = "verdict" /\ pc'[p] = "loop" /\ HasOversized(run[p].uid) /\ run[p].all_ok)
            => run[p].uid \in mailbox /\ run[p].uid \notin mailbox']_vars
    /\ [][\A u \in 1..Len(msgs) : u \notin mailbox => u \notin mailbox']_vars
    /\ [](\A p \in Procs : pc[p] \in {"msg", "att", "upload", "verdict"}
                              => run[p].uid \in mailbox)

\* a message whose only attachment is above the limit was deleted by the
\* first run, without any upload
C24_Witness ==
    \E p \in Procs :
        /\ pc[p] = "done" /\ runs = 1 /\ msgs = << <<MAX_ATTACHMENT_SIZE + 1>> >>
        /\ mailbox = {} /\ run[p].deleted = {1} /\ upload_logs = << >>

\* C29: for a message without attachment _process_single_message returns True
\* at once: nothing is probed or uploaded and no log entry is written; the
\* run then deletes the message and counts it (when imbox.delete returns).
C29_NoAttachmentDeleted ==
    /\ [](\A p \in Procs :
            (pc[p] = "verdict" /\ msgs[run[p].uid] = << >>)
            => run[p].all_ok /\ run[p].tried = {} /\ run[p].calls = {})
    /\ [][\A p \in Procs :
            (pc[p] = "msg" /\ pc'[p] # "msg" /\ msgs[run[p].uid] = << >>)
            => pc'[p] = "verdict" /\ upload_logs' = upload_logs /\ mailbox' = mailbox]_vars
    /\ [][\A p \in Procs :
            (pc[p] = "verdict" /\ pc'[p] # "verdict" /\ msgs[run[p].uid] = << >>)
            => /\ upload_logs' = upload_logs
               /\ \/ /\ pc'[p] = "loop" /\ run[p].uid \notin mailbox'
                     /\ run[p].uid \in run'[p].deleted
                     /\ run'[p].processed_count = run[p].processed_count + 1
                  \/ run'[p].raised /\ mailbox' = mailbox]_vars

\* a run over a mailbox of one message without attachment has ended
C29_Witness ==
    \E p \in Procs :
        /\ pc[p] = "done" /\ msgs = << << >> >> /\ run[p].handed = <<1>>
        /\ mailbox = {} /\ run[p].deleted = {1} /\ run[p].processed_count = 1
        /\ upload_logs = << >>

C28_ProbeErrorMeansAbsent ==
    /\ [](LET pr == attachment.probed
          IN  \A i \in 1..Len(pr) :
                 pr[i].outcome = "request_error"
                 => /\ ~pr[i].exists /\ i = Len(pr) /\ Named
                    /\ attachment.final_filename = pr[i].filename)
    /\ [][(pc[Worker] = "named" /\ pc'[Worker] = "uploaded" /\ upload_logs' # upload_logs)
            => /\ Len(upload_logs') = Len(upload_logs) + 1
               /\ upload_logs'[Len(upload_logs')].filename = attachment.final_filename]_vars

\* the second probe failed, and the attachment was uploaded as 'a (1).txt'
C28_Witness ==
    /\ pc[Worker] = "uploaded" /\ attachment.safe_filename = NameExample
    /\ Len(attachment.probed) = 2 /\ attachment.probed[2].outcome = "request_error"
    /\ Len(upload_logs) = 1 /\ upload_logs[1].status = "Success"
    /\ upload_logs[1].filename = <<"a", " ", "(", "1", ")", ".", "t", "x", "t">>

\* a trigger request that was answered, sent with the correct external
\* credential while both keys are configured
AcceptedTrigger ==
    /\ api.trigger_pc = "idle" /\ api.trigger_id > 0
    /\ ~Falsy(api.api_secret_key) /\ ~Falsy(api.internal_api_key)
    /\ api.trigger_header = Bearer(api.api_secret_key)

\* C25 as stated: every trigger request with the correct external credential
\* is answered 'dispatched', whatever happens to the call to the worker.
C25_AlwaysDispatched ==
    AcceptedTrigger => api.trigger_response = Response(202, "dispatched")

\* C25: a trigger request with the correct external credential is answered
\* 'dispatched' when the call to the worker ends in a read timeout or in a
\* response of any status, whatever the run did; it is answered with an error
\* (status 500) when the call fails in any other way.
C25_DispatchedUnlessPostFails ==
    AcceptedTrigger
    => /\ api.post_outcome \in {"ReadTimeout", "ConnectionError", "response"}
       /\ api.post_outcome \in {"ReadTimeout", "response"}
            => api.trigger_response = Response(202, "dispatched")
       /\ api.post_outcome = "ConnectionError"
            => api.trigger_response = Response(500, "error")

\* the worker answered 500 within the read timeout and the trigger request was
\* answered 'dispatched'
C25_Witness ==
    /\ AcceptedTrigger /\ api.post_outcome = "response"
    /\ api.reply = Response(500, "error")
    /\ api.trigger_response = Response(202, "dispatched")

\* C26: a run is started through HTTP only by a request to the internal worker
\* whose Authorization header carries the configured internal credential, and
\* by no request when no internal credential is configured; a trigger request
\* with a wrong external credential sends nothing to the worker.
C26_RunOnlyWithInternalCredential ==
    /\ [][runs' = runs + 1
            => /\ ~Falsy(api.internal_api_key)
               /\ api.worker_request.auth_header = Bearer(api.internal_api_key)]_vars
    /\ [][(api'.trigger_id # api.trigger_id
             /\ api'.trigger_header # Bearer(api.api_secret_key))
            => api'.worker_request = api.worker_request]_vars

C32_UnstampedRowTaken ==
    [][(pc[Worker] = "acq_decide" /\ pc'[Worker] = "acq_ret" /\ ~lk'[Worker].err
          /\ lk[Worker].seen.is_locked /\ lk[Worker].seen.locked_at = NULL)
         => /\ lk'[Worker].result
            /\ app_locks'[lk[Worker].name].is_locked
            /\ app_locks'[lk[Worker].name].locked_at # NULL
            /\ app_locks'[lk[Worker].name] = LockedRow(now)]_vars

\* a call with the default timeout took a lock without timestamp
C32_Witness ==
    /\ pc[Worker] = "acq_ret" /\ lk[Worker].result
    /\ lk[Worker].seen = UnstampedRow /\ lk[Worker].timeout = DEFAULT_TIMEOUT_MINUTES
    /\ app_locks[LOCK_NAME] = LockedRow(now)

\* the process was terminated while its invocation held the lock
TerminatedHolding == Holding(Worker) /\ pc'[Worker] = "down"

\* C33: termination of a process whose invocation holds the lock leaves the
\* lock row held, and the start of the next process clears it (startup sweep).
C33_HeldUntilStartupSweep ==
    /\ [][TerminatedHolding => app_locks' = app_locks]_vars
    /\ [][(pc[Worker] = "down" /\ pc'[Worker] = "idle")
            => \A n \in LockNames : ~app_locks'[n].is_locked]_vars

\* C34: every step of a run leaves the rows of upload_logs as they are and at
\* most appends one row; the attachments of the message in hand whose PUT
\* succeeded stay uploaded while later attachments are handled, a failing one
\* included.
C34_LogAppendOnly ==
    /\ [][/\ Len(upload_logs') \in {Len(upload_logs), Len(upload_logs) + 1}
          /\ SubSeq(upload_logs', 1, Len(upload_logs)) = upload_logs]_vars
    /\ [][\A p \in Procs :
            (pc[p] \in {"att", "upload"} /\ run[p].uid = run'[p].uid)
            => run[p].okAtt \subseteq run'[p].okAtt]_vars

\* the second attachment failed: the Success entry of the first is still
\* there, followed by the Failed entry
C34_Witness ==
    /\ pc[Worker] = "verdict" /\ run[Worker].failedAt = 2 /\ run[Worker].okAtt = {1}
    /\ upload_logs = <<LogEntry(run[Worker].uid, 1, "Success"),
                       LogEntry(run[Worker].uid, 2, "Failed")>>

\* C35: every row of the lock table is either unlocked without timestamp or
\* locked with a timestamp.
C35_LockedIffStamped ==
    \A n \in LockNames :
       app_locks[n].exists => (app_locks[n].is_locked <=> app_locks[n].locked_at # NULL)

\* a row that was locked, released by another call that found it locked, and
\* is locked again at a later instant
C35_Witness ==
    \E p \in Procs, q \in Procs :
        /\ p # q /\ pc[p] = "acq_ret" /\ lk[p].result /\ ~lk[p].forced
        /\ now > 0 /\ app_locks[LOCK_NAME] = LockedRow(now)
        /\ pc[q] = "rel_ret" /\ ~lk[q].err /\ lk[q].seen.is_locked

\* C36: the release_lock of an invocation that reaches the store unlocks the
\* row even when another invocation holds the lock after a timeout override,
\* and an acquire_lock call that then reads the unlocked row returns True
\* while that other invocation is still running.
C36_ReleaseNotOwnerChecked ==
    /\ [][\A p \in Procs :
            (pc[p] = "release" /\ pc'[p] = "done" /\ run'[p].relOk)
            => app_locks'[LOCK_NAME] = UnlockedRow]_vars
    /\ [][\A p \in Procs :
            (pc[p] = "acq_decide" /\ pc'[p] = "acq_ret" /\ ~lk'[p].err
               /\ lk[p].seen = UnlockedRow)
            => /\ lk'[p].result /\ ~lk'[p].forced
               /\ app_locks'[LOCK_NAME] = LockedRow(now)]_vars

\* B took the lock over from A, which was still running; A has now released,
\* the row is unlocked, and B has not yet released
C36_Witness ==
    \E a \in Procs, b \in Procs :
        /\ a # b /\ runs = 2 /\ stolen
        /\ pc[a] = "done" /\ lk[a].result /\ run[a].released = 1 /\ run[a].relOk
        /\ pc[b] = "acq_ret" /\ lk[b].result /\ lk[b].forced
        /\ app_locks[LOCK_NAME] = UnlockedRow

\* a third invocation acquired the unlocked row while B holds the lock it took over
C36_ThirdAcquires ==
    \E a \in Procs, b \in Procs :
        /\ a # b /\ runs = 3 /\ stolen
        /\ pc[b] = "acq_ret" /\ lk[b].result /\ lk[b].forced
        /\ pc[a] = "acq_ret" /\ lk[a].result /\ ~lk[a].forced /\ lk[a].seen = UnlockedRow

\* C37: the step that deletes a message follows a handling of that message in
\* which every attachment was either uploaded by a PUT that succeeded or
\* skipped as oversized, and in which no upload failed or raised.
C37_DeletedOnlyWhenAllUploaded ==
    [][\A p \in Procs :
          (pc[p] = "verdict" /\ mailbox' # mailbox)
          => LET r == run[p]
                 m == msgs[r.uid]
             IN  /\ mailbox' = mailbox \ {r.uid}
                 /\ r.failedAt = 0 /\ r.all_ok
                 /\ \A k \in 1..Len(m) :
                       \/ k \in r.skipped /\ Oversized(m[k]) /\ k \notin r.calls
                       \/ /\ k \in r.okAtt /\ ~Oversized(m[k])
                          /\ \E i \in 1..Len(r.puts) : r.puts[i].att = k
                 /\ r.calls = r.okAtt]_vars

\* a message with an uploaded and an oversized attachment has been deleted
C37_Witness ==
    /\ pc[Worker] = "loop" /\ run[Worker].deleted = {1} /\ 1 \notin mailbox
    /\ msgs[1] = <<MAX_ATTACHMENT_SIZE, MAX_ATTACHMENT_SIZE + 1>>
    /\ upload_logs = <<LogEntry(1, 1, "Success")>>

HasDotDot(s) == \E i \in 1..(Len(s) - 1) : s[i] = "." /\ s[i + 1] = "."

\* C38: the remote file name handed to upload_to_webdav, with or without a
\* ' (k)' suffix, holds no '..' and none of < > : " / \ | ? *, whatever the raw
\* header, percent-encoded dots and separators included; the name logged by
\* the upload is that name.
C38_RemoteNameSafe ==
    /\ [](Named => /\ ~HasDotDot(attachment.final_filename)
                   /\ \A i \in 1..Len(attachment.final_filename) :
                         attachment.final_filename[i] \notin Forbidden)
    /\ [](\A i \in 1..Len(attachment.probed) :
             /\ ~HasDotDot(attachment.probed[i].filename)
             /\ \A j \in 1..Len(attachment.probed[i].filename) :
                   attachment.probed[i].filename[j] \notin Forbidden)
    /\ [](pc[Worker] = "uploaded"
             => \A i \in 1..Len(upload_logs) :
                   upload_logs[i].filename = attachment.final_filename)

\* '%2e%2E%2fx' decodes to '../x', is sanitized to '_x' and uploaded as '_x (1)'
C38_Witness ==
    /\ pc[Worker] = "uploaded" /\ attachment.filename_raw = EncodedPathExample
    /\ attachment.original_filename = <<".", ".", "/", "x">>
    /\ attachment.counter = 1
    /\ attachment.final_filename = <<"_", "x", " ", "(", "1", ")">>

\* the invocation of p acquired the lock and left the try block at the
\* validation of its configuration
EndedAtValidation(p) ==
    /\ pc[p] \in {"release", "done"} /\ lk[p].result
    /\ run[p].sessions = 0 /\ ~run[p].raised

\* C39: when validate_config refuses the configuration (an empty static list
\* in particular, whatever the persisted targets), the next step of the run is
\* release_lock: no mailbox session is opened, no message is handed over or
\* deleted, nothing is uploaded, and the run ends having executed release_lock
\* once, the row being unlocked when that call reached the store.
C39_InvalidConfigEndsRun ==
    /\ [][\A p \in Procs :
            (pc[p] = "load_cfg" /\ pc'[p] # "load_cfg")
            => /\ pc'[p] \in {"connect", "release"}
               /\ run'[p].cfg = << >> => pc'[p] = "release"
               /\ mailbox' = mailbox /\ seen' = seen /\ upload_logs' = upload_logs]_vars
    /\ [](\A p \in Procs :
            EndedAtValidation(p)
            => /\ run[p].handed = << >> /\ run[p].deleted = {} /\ run[p].processed_count = 0
               /\ run[p].unread = << >>
               /\ pc[p] = "done"
                     => /\ run[p].released = 1
                        /\ run[p].relOk => ~app_locks[LOCK_NAME].is_locked)
    /\ [][\A p \in Procs :
            (EndedAtValidation(p) /\ pc[p] = "release")
            => mailbox' = mailbox /\ seen' = seen /\ upload_logs' = upload_logs]_vars

\* the static list is empty while two persisted targets are enabled: the run
\* has ended with its mailbox untouched and the lock row unlocked
C39_Witness ==
    /\ pc[Worker] = "done" /\ EndedAtValidation(Worker) /\ run[Worker].cfg = << >>
    /\ \E s \in webdav_servers : s.enabled
    /\ runs = 1 /\ mailbox = {1, 2} /\ upload_logs = << >>
    /\ run[Worker].released = 1 /\ app_locks[LOCK_NAME] = UnlockedRow

\* C40: find_unique_filename probes safe_filename, then 'base (1).ext',
\* 'base (2).ext', ... in this order; it returns exactly at the first probe
\* answered 'absent' (status other than 200, or a request error) and returns
\* that candidate; a probe answered 'present' never ends the call, whatever
\* the counter: the counter grows by one and the call, and with it the run,
\* stays in the loop.
C40_ProbesUntilAbsent ==
    /\ [](LET pr == attachment.probed
          IN  /\ \A i \in 1..Len(pr) :
                    /\ pr[i].filename = IF i = 1 THEN attachment.safe_filename
                                        ELSE Candidate(attachment.safe_filename, i - 1)
                    /\ pr[i].exists = (pr[i].outcome = "200")
              /\ pc[Worker] = "probe"
                    => /\ attachment.counter = Len(pr)
                       /\ \A i \in 1..Len(pr) : pr[i].exists
              /\ Named
                    => /\ Len(pr) >= 1 /\ ~pr[Len(pr)].exists
                       /\ \A i \in 1..(Len(pr) - 1) : pr[i].exists
                       /\ attachment.final_filename = pr[Len(pr)].filename)
    /\ [][(pc[Worker] = "probe" /\ attachment' # attachment)
            => LET pr == attachment'.probed
               IN  /\ Len(pr) = Len(attachment.probed) + 1
                   /\ pr[Len(pr)].exists
                         => /\ pc'[Worker] = "probe"
                            /\ attachment'.counter = attachment.counter + 1
                   /\ ~pr[Len(pr)].exists => pc'[Worker] = "named"]_vars

\* every probe made so far, the one for 'a (MaxCounter - 1).txt' included, was
\* answered 'present', and the call is still in its loop
C40_Witness ==
    /\ pc[Worker] = "probe" /\ attachment.safe_filename = NameExample
    /\ attachment.counter = MaxCounter /\ Len(attachment.probed) = MaxCounter
    /\ \A i \in 1..MaxCounter : attachment.probed[i].outcome = "200"

====
